---------------------------- MODULE Spec2Model ----------------------------
(* A model of the broker layer and the margin optimizer of ai-margin-optimize:
   CDSLPledgeService (services/cdsl_pledge_service.py), UnifiedBrokerService
   (services/unified_broker_service.py) over the Zerodha and FYERS adapters,
   and PredictionService (services/prediction_service.py).

   Identifiers are pairs <<prefix, number>>: 'PL12347' is <<"PL", 12347>>, so
   that pledge_id[2:], int(...) and startswith('PL') are computed, not assumed.
   An OTP is None or a sequence of characters.  Money and fractions are
   integers in fixed units (see the prediction section).                    *)
EXTENDS Integers, Sequences, FiniteSets, TLC

VARIABLES
    demo_mode,              \* CDSLPledgeService.demo_mode
    session_valid,          \* CDSLPledgeService: session_token set and not expired
    demo_pledged_holdings,  \* CDSLPledgeService.demo_pledged_holdings (a list)
    demo_pledge_requests,   \* CDSLPledgeService.demo_pledge_requests (a dict)
    next_pledge_id,         \* CDSLPledgeService.next_pledge_id
    unpledged,              \* history: quantity deducted so far, per pledge number
    authorizations,         \* history: number of successful authorize_pledge calls
    api_keys,               \* environment: brokers whose API key is configured
    adapters,               \* BrokerFactory._adapters: registered name -> adapter class
    broker_adapter,         \* UnifiedBrokerService.broker_adapter (None or the adapter object)
    connected_broker,       \* UnifiedBrokerService.connected_broker
    adapters_built,         \* number of adapter objects constructed so far
    ever_connected,         \* history: some connect has succeeded
    connected_adapter,      \* history: the adapter of the last successful connect
                            \* not followed by a disconnect (0: none)
    last,                   \* the last call and the result it returned
    pred,                   \* PredictionService: the inputs of a call and its result
    threads                 \* request threads inside create_pledge_request

pledgeVars == <<demo_mode, session_valid, demo_pledged_holdings,
                demo_pledge_requests, next_pledge_id, unpledged, authorizations>>
brokerVars == <<api_keys, adapters, broker_adapter, connected_broker, adapters_built,
                ever_connected, connected_adapter>>
vars == <<demo_mode, session_valid, demo_pledged_holdings, demo_pledge_requests,
          next_pledge_id, unpledged, authorizations, api_keys, adapters, broker_adapter,
          connected_broker, adapters_built, ever_connected, connected_adapter,
          last, pred, threads>>

\* what the calls on the broker layer leave alone
otherVars == <<pred, threads>>

None == "None"
\* broker_adapter = None: no adapter object
NoAdapter == [broker |-> None, class |-> None, instance |-> 0, demo_mode |-> TRUE,
              access_token |-> FALSE, user_id |-> FALSE, session_expiry |-> FALSE,
              expired |-> FALSE]

\* the operations BrokerInterface declares abstract
Capabilities ==
    {"connect", "disconnect", "get_profile", "get_holdings", "get_positions",
     "get_margin", "place_order", "get_order_status", "get_order_history",
     "modify_order", "cancel_order"}

\* an adapter class: whether it derives from BrokerInterface, and the
\* capabilities it defines
Class(name, derives, defines) == [name |-> name, derives |-> derives, defines |-> defines]
ZerodhaAdapter == Class("ZerodhaAdapter", TRUE, Capabilities)
FYERSAdapter == Class("FYERSAdapter", TRUE, Capabilities)

\* issubclass(adapter_class, BrokerInterface)
issubclass(adapter_class) == adapter_class.derives

\* adapter_class(config) returns an object: a class deriving from the abstract
\* BrokerInterface cannot be instantiated while an abstract method is undefined
Instantiable(adapter_class) ==
    adapter_class.derives => adapter_class.defines = Capabilities

\* the registrations made when unified_broker_service is imported
Registered == ("zerodha" :> ZerodhaAdapter) @@ ("fyers" :> FYERSAdapter)

-----------------------------------------------------------------------------
(* Bounds of the model *)

\* create_pledge_request is called at most this many times
MaxCreates == 1
\* and at most this many times where the quantities are the subject
MaxQuantityCreates == 2
\* requested quantities are 1..MaxQty
MaxQty == 3
\* authorize_pledge succeeds at most this many times
MaxAuthorizations == 3
\* at most this many adapter objects are constructed
MaxAdapters == 2

-----------------------------------------------------------------------------
(* Program constants *)

\* numeric suffixes of the two seeded pledges and of the first generated id
SeedNum1 == 12345
SeedNum2 == 12346
FirstNewNum == 12347
\* seeded quantities
SeedQty1 == 5
SeedQty2 == 8
\* seeded collateral values, in 1/100 rupee
SeedCollateral1 == 10603000
SeedCollateral2 == 10543400
\* 2650.75 * 0.80 in 1/100 rupee: collateral value of one share of a new pledge
UnitCollateral == 212060
\* seeded values in 1/100 rupee, and seeded haircuts in percent
SeedValue1 == 13253750
SeedValue2 == 12404000
SeedHaircut1 == 20
SeedHaircut2 == 15
\* 2650.75 in 1/100 rupee: value of one share of a new pledge; its haircut 0.20
UnitValue == 265075
DefaultHaircut == 20
\* length of a valid OTP
OtpLen == 6

\* the names registered with BrokerFactory when the service module is imported
Brokers == {"zerodha", "fyers"}
Symbols == {"RELIANCE", "TCS"}
Digits == {"0", "1", "2", "3", "4", "5", "6", "7", "8", "9"}

PledgeNums == SeedNum1 .. (FirstNewNum + MaxCreates + MaxQuantityCreates - 1)
\* the identifiers a caller passes: the first seeded pledge, the generated ids,
\* their unpledge ids, and an id the service never issued (the second seeded
\* pledge stays in the holdings as a bystander)
UnknownId == <<"PL", 99999>>
NoId == <<"", 0>>
CallerNums == {SeedNum1} \cup (FirstNewNum .. (FirstNewNum + MaxCreates - 1))
Ids == ({"PL", "UP"} \X CallerNums) \cup {UnknownId}
Quantities == 1 .. MaxQty

\* an OTP argument is None or a string: [type, chars]
NoOtp == [type |-> "NoneType", chars |-> <<>>]
Str(chars) == [type |-> "str", chars |-> chars]
\* the OTPs a caller passes: missing, empty, too short, valid, non-digit, too long
Otps == { NoOtp, Str(<<>>),
          Str(<<"1", "2", "3", "4", "5">>),
          Str(<<"1", "2", "3", "4", "5", "6">>),
          Str(<<"1", "2", "3", "4", "5", "a">>),
          Str(<<"1", "2", "3", "4", "5", "6", "7">>) }

-----------------------------------------------------------------------------
(* Helpers *)

IdPrefix(id) == id[1]
IdNum(id) == id[2]
startswith(id, prefix) == IdPrefix(id) = prefix

\* d[k] = v for a dict d
Put(d, k, v) == [x \in (DOMAIN d) \cup {k} |-> IF x = k THEN v ELSE d[x]]

\* list.pop(i)
Pop(s, i) == [j \in 1 .. (Len(s) - 1) |-> IF j < i THEN s[j] ELSE s[j + 1]]

\* index of the first record of the list with that pledge_id, 0 when there is none
FirstIndex(holdings, pledge_id) ==
    IF \E i \in 1 .. Len(holdings) : holdings[i].pledge_id = pledge_id
    THEN CHOOSE i \in 1 .. Len(holdings) :
            /\ holdings[i].pledge_id = pledge_id
            /\ \A j \in 1 .. (i - 1) : holdings[j].pledge_id # pledge_id
    ELSE 0

Min(a, b) == IF a <= b THEN a ELSE b
Max(a, b) == IF a >= b THEN a ELSE b

\* the record of a call: which operation, its arguments, what it returned
NoCall == [op |-> "init", id |-> NoId, otp |-> NoOtp, quantity |-> 0,
           success |-> TRUE, error |-> "", status |-> "", result_id |-> NoId,
           broker |-> None, replaced |-> 0, adapter |-> 0, parts |-> {},
           class |-> None, supported |-> {}, raised |-> FALSE, order_params |-> "",
           credentials |-> [type |-> "NoneType", keys |-> {}]]

Returned(op, id, otp, success, error, status) ==
    [NoCall EXCEPT !.op = op, !.id = id, !.otp = otp, !.success = success,
                   !.error = error, !.status = status]

\* the result of a call that failed with the error
Failed(op, error) == [NoCall EXCEPT !.op = op, !.success = FALSE, !.error = error]
\* a call that raised the error to its caller
Raise(op, error) == [Failed(op, error) EXCEPT !.raised = TRUE]

-----------------------------------------------------------------------------
(* CDSLPledgeService *)

\* the two seeded pledges and the empty request store
PledgeInit ==
    /\ demo_mode \in BOOLEAN
    /\ session_valid = FALSE
    /\ demo_pledged_holdings =
          << [pledge_id |-> <<"PL", SeedNum1>>, symbol |-> "RELIANCE",
              quantity |-> SeedQty1, status |-> "ACTIVE",
              haircut |-> SeedHaircut1, value |-> SeedValue1,
              collateral_value |-> SeedCollateral1],
             [pledge_id |-> <<"PL", SeedNum2>>, symbol |-> "HDFCBANK",
              quantity |-> SeedQty2, status |-> "ACTIVE",
              haircut |-> SeedHaircut2, value |-> SeedValue2,
              collateral_value |-> SeedCollateral2] >>
    /\ demo_pledge_requests = [x \in {} |-> x]
    /\ next_pledge_id = <<"PL", FirstNewNum>>
    /\ unpledged = [n \in PledgeNums |-> 0]
    /\ authorizations = 0

\* the id returned by _generate_pledge_id, and the id it leaves for the next call
GeneratedId == next_pledge_id
\* a generator that forgets to increment
NextIdUnchanged(pledge_id) == pledge_id
NextIdAfter(pledge_id) == <<"PL", IdNum(pledge_id) + 1>>

\* _ensure_authenticated: a valid session, or _authenticate, which returns
\* False when the exchange with CDSL raises
EnsureAuthenticated(auth_ok) == session_valid \/ auth_ok

\* the live branch of every operation: authenticate, then the fixed reply
LiveCall(op, id, otp, status, auth_ok) ==
    /\ session_valid' = EnsureAuthenticated(auth_ok)
    /\ last' = IF EnsureAuthenticated(auth_ok)
               THEN Returned(op, id, otp, TRUE, "", status)
               ELSE Returned(op, id, otp, FALSE, "Authentication failed with CDSL", "")
    /\ UNCHANGED <<demo_mode, demo_pledged_holdings, demo_pledge_requests,
                   next_pledge_id, unpledged, authorizations>>

\* the bound on the number of ids generated
CreateAllowed(max) == demo_mode => IdNum(next_pledge_id) < FirstNewNum + max

create_pledge_request(stock_id, quantity) ==
    IF demo_mode
    THEN /\ LET pledge_id == GeneratedId IN
            /\ next_pledge_id' = NextIdAfter(pledge_id)
            /\ demo_pledge_requests' =
                  Put(demo_pledge_requests, pledge_id,
                      [pledge_id |-> pledge_id, symbol |-> stock_id,
                       quantity |-> quantity, status |-> "PENDING_AUTHORIZATION"])
            /\ last' = [Returned("create_pledge_request", NoId, NoOtp, TRUE, "",
                                 "PENDING_AUTHORIZATION")
                           EXCEPT !.quantity = quantity, !.result_id = pledge_id]
         /\ UNCHANGED <<demo_mode, session_valid, demo_pledged_holdings, unpledged,
                        authorizations>>
    ELSE \E auth_ok \in BOOLEAN :
            LiveCall("create_pledge_request", NoId, NoOtp,
                     "PENDING_AUTHORIZATION", auth_ok)

\* an unpledge request stored under the id of its pledge
UnpledgeIdOfPledge(pledge_id) == pledge_id

\* the id an unpledge request is stored under: 'UP' + pledge_id[2:]
UnpledgeId(pledge_id) == <<"UP", IdNum(pledge_id)>>

\* the quantity an unpledge request records
UnpledgeQuantity(quantity, pledge) == Min(quantity, pledge.quantity)

unpledge_request(pledge_id, quantity) ==
    IF demo_mode
    THEN LET i == FirstIndex(demo_pledged_holdings, pledge_id) IN
         /\ IF i # 0
            THEN LET pledge == demo_pledged_holdings[i]
                     unpledge_id == UnpledgeId(pledge_id) IN
                 /\ demo_pledge_requests' =
                       Put(demo_pledge_requests, unpledge_id,
                           [unpledge_id |-> unpledge_id, pledge_id |-> pledge_id,
                            symbol |-> pledge.symbol,
                            quantity |-> UnpledgeQuantity(quantity, pledge),
                            status |-> "PENDING_AUTHORIZATION"])
                 /\ last' = [Returned("unpledge_request", pledge_id, NoOtp, TRUE, "",
                                      "PENDING_AUTHORIZATION")
                                EXCEPT !.quantity = quantity, !.result_id = unpledge_id]
            ELSE /\ last' = [Returned("unpledge_request", pledge_id, NoOtp, FALSE,
                                      "not found", "")
                                EXCEPT !.quantity = quantity]
                 /\ UNCHANGED demo_pledge_requests
         /\ UNCHANGED <<demo_mode, session_valid, demo_pledged_holdings,
                        next_pledge_id, unpledged, authorizations>>
    ELSE \E auth_ok \in BOOLEAN :
            LiveCall("unpledge_request", pledge_id, NoOtp,
                     "PENDING_AUTHORIZATION", auth_ok)

get_pledge_status(pledge_id) ==
    IF demo_mode
    THEN /\ last' =
              IF pledge_id \in DOMAIN demo_pledge_requests
              THEN Returned("get_pledge_status", pledge_id, NoOtp, TRUE, "",
                            demo_pledge_requests[pledge_id].status)
              ELSE IF FirstIndex(demo_pledged_holdings, pledge_id) # 0
              THEN Returned("get_pledge_status", pledge_id, NoOtp, TRUE, "",
                            demo_pledged_holdings[
                                FirstIndex(demo_pledged_holdings, pledge_id)].status)
              ELSE Returned("get_pledge_status", pledge_id, NoOtp, FALSE, "not found", "")
         /\ UNCHANGED pledgeVars
    ELSE \E auth_ok \in BOOLEAN :
            LiveCall("get_pledge_status", pledge_id, NoOtp, "ACTIVE", auth_ok)

\* a get_pledged_holdings that hands the list over and keeps none of it
get_pledged_holdings_drained ==
    /\ last' = [Returned("get_pledged_holdings", NoId, NoOtp, TRUE, "", "")
                    EXCEPT !.parts = {"pledges"}]
    /\ demo_pledged_holdings' = <<>>
    /\ UNCHANGED <<demo_mode, session_valid, demo_pledge_requests, next_pledge_id,
                   unpledged, authorizations>>

get_pledged_holdings ==
    IF demo_mode
    THEN /\ last' = [Returned("get_pledged_holdings", NoId, NoOtp, TRUE, "", "")
                        EXCEPT !.parts = {"pledges"}]
         /\ UNCHANGED pledgeVars
    ELSE \E auth_ok \in BOOLEAN :
            LiveCall("get_pledged_holdings", NoId, NoOtp, "", auth_ok)

\* an OTP check that forgets otp.isdigit()
OtpValidAnyChars(otp) ==
    /\ otp.type = "str"
    /\ otp.chars # <<>>
    /\ Len(otp.chars) = OtpLen

\* an OTP check that forgets len(otp) != 6
OtpValidAnyLength(otp) ==
    /\ otp.type = "str"
    /\ otp.chars # <<>>
    /\ \A i \in 1 .. Len(otp.chars) : otp.chars[i] \in Digits

\* the OTP check of authorize_pledge: not (not otp or len(otp) != 6 or not otp.isdigit())
OtpValid(otp) ==
    /\ otp.type = "str"
    /\ otp.chars # <<>>
    /\ Len(otp.chars) = OtpLen
    /\ \A i \in 1 .. Len(otp.chars) : otp.chars[i] \in Digits

\* len(otp) raises TypeError on an OTP given as a number other than 0
OtpRaises(otp) == otp.type = "int"

\* a pledged record whose collateral value forgets the haircut
NewPledgeNoHaircut(pledge_id, request) ==
    [pledge_id |-> pledge_id, symbol |-> request.symbol,
     quantity |-> request.quantity, status |-> "ACTIVE",
     haircut |-> DefaultHaircut, value |-> request.quantity * UnitValue,
     collateral_value |-> request.quantity * UnitValue]

\* the record appended to the pledged holdings when a pledge request is authorized
NewPledge(pledge_id, request) ==
    [pledge_id |-> pledge_id, symbol |-> request.symbol,
     quantity |-> request.quantity, status |-> "ACTIVE",
     haircut |-> DefaultHaircut, value |-> request.quantity * UnitValue,
     collateral_value |-> request.quantity * UnitCollateral]

\* an unpledge that keeps the record whatever quantity is left
AfterUnpledgeKeep(holdings, request) ==
    LET i == FirstIndex(holdings, request.pledge_id) IN
    IF i = 0 THEN holdings
    ELSE [holdings EXCEPT ![i].quantity = @ - request.quantity]

\* an unpledge that removes the record only at exactly 0
AfterUnpledgeAtZero(holdings, request) ==
    LET i == FirstIndex(holdings, request.pledge_id) IN
    IF i = 0 THEN holdings
    ELSE LET reduced == [holdings EXCEPT ![i].quantity = @ - request.quantity] IN
         IF reduced[i].quantity = 0 THEN Pop(reduced, i) ELSE reduced

\* the pledged holdings after an unpledge of request.quantity is applied
AfterUnpledge(holdings, request) ==
    LET i == FirstIndex(holdings, request.pledge_id) IN
    IF i = 0 THEN holdings
    ELSE LET reduced == [holdings EXCEPT ![i].quantity = @ - request.quantity] IN
         IF reduced[i].quantity <= 0 THEN Pop(reduced, i) ELSE reduced

\* history of the deductions, kept below a ceiling that lies above every
\* pledged quantity
MaxUnpledged == SeedQty2 + MaxQty + 1
Deducted(holdings, request) ==
    LET n == IdNum(request.pledge_id) IN
    IF FirstIndex(holdings, request.pledge_id) = 0 \/ n \notin PledgeNums
    THEN unpledged
    ELSE [unpledged EXCEPT ![n] = Min(@ + request.quantity, MaxUnpledged)]

authorize_pledge(pledge_id, otp) ==
    IF demo_mode
    THEN /\ IF pledge_id \in DOMAIN demo_pledge_requests
            THEN LET request == demo_pledge_requests[pledge_id] IN
                 IF OtpRaises(otp)
                 THEN /\ last' = [Raise("authorize_pledge", "TypeError")
                                    EXCEPT !.id = pledge_id, !.otp = otp]
                      /\ UNCHANGED <<demo_pledge_requests, demo_pledged_holdings,
                                     unpledged, authorizations>>
                 ELSE IF ~OtpValid(otp)
                 THEN /\ last' = Returned("authorize_pledge", pledge_id, otp, FALSE,
                                          "Invalid OTP", "")
                      /\ UNCHANGED <<demo_pledge_requests, demo_pledged_holdings,
                                     unpledged, authorizations>>
                 ELSE /\ authorizations < MaxAuthorizations
                      /\ authorizations' = authorizations + 1
                      /\ IF startswith(pledge_id, "PL")
                         THEN /\ demo_pledge_requests' =
                                    [demo_pledge_requests EXCEPT
                                        ![pledge_id].status = "COMPLETED"]
                              /\ demo_pledged_holdings' =
                                    Append(demo_pledged_holdings,
                                           NewPledge(pledge_id, request))
                              /\ UNCHANGED unpledged
                         ELSE IF startswith(pledge_id, "UP")
                         THEN /\ demo_pledge_requests' =
                                    [demo_pledge_requests EXCEPT
                                        ![pledge_id].status = "COMPLETED"]
                              /\ demo_pledged_holdings' =
                                    AfterUnpledge(demo_pledged_holdings, request)
                              /\ unpledged' = Deducted(demo_pledged_holdings, request)
                         ELSE UNCHANGED <<demo_pledge_requests, demo_pledged_holdings,
                                          unpledged>>
                      /\ last' = Returned("authorize_pledge", pledge_id, otp, TRUE, "",
                                          "COMPLETED")
            ELSE /\ last' = Returned("authorize_pledge", pledge_id, otp, FALSE,
                                     "not found", "")
                 /\ UNCHANGED <<demo_pledge_requests, demo_pledged_holdings, unpledged,
                                authorizations>>
         /\ UNCHANGED <<demo_mode, session_valid, next_pledge_id>>
    ELSE \E auth_ok \in BOOLEAN :
            LiveCall("authorize_pledge", pledge_id, otp, "COMPLETED", auth_ok)

\* a request_pledge_otp that does not look the id up
request_pledge_otp_any_id(pledge_id) ==
    /\ last' = Returned("request_pledge_otp", pledge_id, NoOtp, TRUE, "", "")
    /\ UNCHANGED pledgeVars

request_pledge_otp(pledge_id) ==
    IF demo_mode
    THEN /\ last' = IF pledge_id \in DOMAIN demo_pledge_requests
                    THEN Returned("request_pledge_otp", pledge_id, NoOtp, TRUE, "", "")
                    ELSE Returned("request_pledge_otp", pledge_id, NoOtp, FALSE,
                                  "not found", "")
         /\ UNCHANGED pledgeVars
    ELSE \E auth_ok \in BOOLEAN :
            LiveCall("request_pledge_otp", pledge_id, NoOtp, "", auth_ok)

\* time.time() reaches session_expiry
SessionExpires ==
    /\ session_valid
    /\ session_valid' = FALSE
    /\ last' = Returned("time", NoId, NoOtp, TRUE, "", "")
    /\ UNCHANGED <<demo_mode, demo_pledged_holdings, demo_pledge_requests,
                   next_pledge_id, unpledged, authorizations>>

-----------------------------------------------------------------------------
(* The pledge service on its own: any sequence of its operations *)

BrokerIdle ==
    /\ api_keys = {}
    /\ adapters = Registered
    /\ broker_adapter = NoAdapter
    /\ connected_broker = None
    /\ adapters_built = 0
    /\ ever_connected = FALSE
    /\ connected_adapter = 0

Init ==
    /\ PledgeInit
    /\ BrokerIdle
    /\ last = NoCall
    /\ pred = None
    /\ threads = None

\* calls made on the pledge service directly: the account is left alone
PledgeCreate ==
    /\ CreateAllowed(MaxCreates)
    /\ \E stock_id \in Symbols, quantity \in Quantities :
          create_pledge_request(stock_id, quantity)
    /\ UNCHANGED <<brokerVars, otherVars>>
PledgeUnpledge ==
    /\ \E pledge_id \in Ids, quantity \in Quantities :
          unpledge_request(pledge_id, quantity)
    /\ UNCHANGED <<brokerVars, otherVars>>
PledgeStatus ==
    /\ \E pledge_id \in Ids : get_pledge_status(pledge_id)
    /\ UNCHANGED <<brokerVars, otherVars>>
PledgeHoldings ==
    /\ get_pledged_holdings
    /\ UNCHANGED <<brokerVars, otherVars>>
PledgeAuthorize ==
    /\ \E pledge_id \in Ids, otp \in Otps : authorize_pledge(pledge_id, otp)
    /\ UNCHANGED <<brokerVars, otherVars>>
PledgeOtp ==
    /\ \E pledge_id \in Ids : request_pledge_otp(pledge_id)
    /\ UNCHANGED <<brokerVars, otherVars>>
PledgeSessionExpires ==
    /\ SessionExpires
    /\ UNCHANGED <<brokerVars, otherVars>>

Next ==
    \/ PledgeCreate
    \/ PledgeUnpledge
    \/ PledgeStatus
    \/ PledgeHoldings
    \/ PledgeAuthorize
    \/ PledgeOtp
    \/ PledgeSessionExpires

Spec == Init /\ [][Next]_vars

\* the same service called with quantities of any sign, and with more than
\* one create_pledge_request; every OTP is well formed
AnyQuantities == {0 - 1, 0, 1}
QuantityNums == {SeedNum1} \cup (FirstNewNum .. (FirstNewNum + MaxQuantityCreates - 1))
QuantityIds == {"PL", "UP"} \X QuantityNums
WellFormedOtp == Str(<<"1", "2", "3", "4", "5", "6">>)

QuantityCreate ==
    /\ CreateAllowed(MaxQuantityCreates)
    /\ \E quantity \in AnyQuantities : create_pledge_request("RELIANCE", quantity)
    /\ UNCHANGED <<brokerVars, otherVars>>
QuantityUnpledge ==
    /\ \E pledge_num \in {SeedNum1, FirstNewNum}, quantity \in AnyQuantities :
          unpledge_request(<<"PL", pledge_num>>, quantity)
    /\ UNCHANGED <<brokerVars, otherVars>>
QuantityAuthorize ==
    /\ \E pledge_id \in QuantityIds : authorize_pledge(pledge_id, WellFormedOtp)
    /\ UNCHANGED <<brokerVars, otherVars>>

NextQuantity ==
    \/ QuantityCreate
    \/ QuantityUnpledge
    \/ QuantityAuthorize

SpecQuantity == Init /\ [][NextQuantity]_vars

-----------------------------------------------------------------------------
(* BrokerFactory and the broker adapters *)

\* str.lower() on the broker names a caller passes
Lower(name) == IF name = "ZERODHA" THEN "zerodha" ELSE name

\* a list of supported brokers that is fixed at import time
get_supported_brokers_at_import == DOMAIN Registered

\* BrokerFactory.get_supported_brokers
get_supported_brokers == DOMAIN adapters

\* a lookup that compares the name as it was passed
is_supported_exact_case(broker_name) == broker_name \in DOMAIN adapters

\* BrokerFactory.is_supported
is_supported(broker_name) == Lower(broker_name) \in DOMAIN adapters

\* the broker whose API key the class reads from the environment
ApiKeyOf(class) == IF class = "ZerodhaAdapter" THEN "zerodha" ELSE "fyers"

\* BrokerFactory.create: a new adapter object of the registered class;
\* demo_mode is set when the class's API key is not in the environment
NewAdapter(broker_name, instance) ==
    [broker |-> Lower(broker_name), class |-> adapters[Lower(broker_name)].name,
     instance |-> instance,
     demo_mode |-> ApiKeyOf(adapters[Lower(broker_name)].name) \notin api_keys,
     access_token |-> FALSE, user_id |-> FALSE, session_expiry |-> FALSE,
     expired |-> FALSE]

\* a registry that keeps the class first stored under a name
StoredIfAbsent(registry, broker_name, adapter_class) ==
    [name \in DOMAIN registry \cup {Lower(broker_name)} |->
        IF name \in DOMAIN registry THEN registry[name] ELSE adapter_class]

\* the registry after cls._adapters[broker_name.lower()] = adapter_class
Stored(registry, broker_name, adapter_class) ==
    [name \in DOMAIN registry \cup {Lower(broker_name)} |->
        IF name = Lower(broker_name) THEN adapter_class ELSE registry[name]]

\* BrokerFactory.register_adapter: raises TypeError unless the class derives
\* from BrokerInterface, then stores it under the lowered name (None has no
\* lower(): AttributeError)
register_adapter(broker_name, adapter_class) ==
    LET error == IF ~issubclass(adapter_class) THEN "TypeError"
                 ELSE IF broker_name = None THEN "AttributeError"
                 ELSE "" IN
    /\ adapters' = IF error = "" THEN Stored(adapters, broker_name, adapter_class)
                   ELSE adapters
    /\ last' = [NoCall EXCEPT !.op = "register_adapter", !.broker = broker_name,
                              !.class = adapter_class.name,
                              !.success = (error = ""), !.error = error,
                              !.raised = (error # "")]
    /\ UNCHANGED <<api_keys, broker_adapter, connected_broker, adapters_built,
                   ever_connected, connected_adapter>>

\* BrokerFactory.create: raises ValueError, naming the registered brokers, for
\* a name that is not registered; else returns adapter_class(config)
create(broker_name) ==
    IF broker_name = None
    THEN /\ last' = [Raise("create", "AttributeError") EXCEPT !.broker = broker_name]
         /\ UNCHANGED brokerVars
    ELSE IF Lower(broker_name) \notin DOMAIN adapters
    THEN /\ last' = [Raise("create", "Unsupported broker")
                        EXCEPT !.broker = broker_name, !.supported = DOMAIN adapters]
         /\ UNCHANGED brokerVars
    ELSE IF ~Instantiable(adapters[Lower(broker_name)])
    THEN /\ last' = [Raise("create", "TypeError")
                        EXCEPT !.broker = broker_name,
                               !.class = adapters[Lower(broker_name)].name]
         /\ UNCHANGED brokerVars
    ELSE /\ adapters_built < MaxAdapters
         /\ adapters_built' = adapters_built + 1
         /\ last' = [NoCall EXCEPT !.op = "create", !.broker = broker_name,
                                   !.adapter = adapters_built + 1,
                                   !.class = adapters[Lower(broker_name)].name]
         /\ UNCHANGED <<api_keys, adapters, broker_adapter, connected_broker,
                        ever_connected, connected_adapter>>

\* credentials are None or a dict, given by the keys that hold a value
NoCredentials == [type |-> "NoneType", keys |-> {}]
Dict(keys) == [type |-> "dict", keys |-> keys]
Credentials == {NoCredentials, Dict({}), Dict({"request_token"}), Dict({"auth_code"})}

\* the credential each adapter's connect asks for
RequiredCredential(class) == IF class = "ZerodhaAdapter" THEN "request_token" ELSE "auth_code"

\* whether the adapter's connect succeeds
ConnectSucceeds(adapter, credentials) ==
    \/ adapter.demo_mode
    \/ /\ credentials.type = "dict"
       /\ RequiredCredential(adapter.class) \in credentials.keys

\* the error of a failed adapter connect: credentials.get raises on None
ConnectError(adapter, credentials) ==
    IF credentials.type # "dict" THEN "AttributeError"
    ELSE IF adapter.class = "ZerodhaAdapter"
    THEN "Request token required for authentication"
    ELSE "Authorization code required for authentication"

\* an adapter without access token, user id and session expiry
NoSession(adapter) ==
    [adapter EXCEPT !.access_token = FALSE, !.user_id = FALSE,
                    !.session_expiry = FALSE, !.expired = FALSE]

\* a connect that drops the session it had when it fails
AfterConnectOrNoSession(adapter, credentials) ==
    IF ConnectSucceeds(adapter, credentials)
    THEN [adapter EXCEPT !.access_token = TRUE, !.user_id = TRUE,
                         !.session_expiry = TRUE, !.expired = FALSE]
    ELSE NoSession(adapter)

\* the adapter after its connect: access token, user id and session expiry
\* (24 hours ahead) are set on success and untouched on failure
AfterConnect(adapter, credentials) ==
    IF ConnectSucceeds(adapter, credentials)
    THEN [adapter EXCEPT !.access_token = TRUE, !.user_id = TRUE,
                         !.session_expiry = TRUE, !.expired = FALSE]
    ELSE adapter

\* the adapter after its disconnect
AfterDisconnect(adapter) == NoSession(adapter)

\* a session check that does not look at the expiry time
check_session_without_expiry(adapter) == adapter.access_token

\* _check_session; expired: time.time() has reached session_expiry
check_session(adapter) ==
    adapter.access_token /\ adapter.session_expiry /\ ~adapter.expired

\* a read that asks for a session in demo mode as well
ReadNeedsSession(adapter) == check_session(adapter)

\* a read on the adapter (get_holdings, get_positions, get_margin,
\* get_order_status, get_order_history) succeeds
ReadSucceeds(adapter) == adapter.demo_mode \/ check_session(adapter)

\* order parameters: None, a dict lacking a required key, a complete dict
OrderParams == {"None", "incomplete", "complete"}

-----------------------------------------------------------------------------
(* UnifiedBrokerService *)

\* the except clause of a facade operation: {"success": False, "error": str(e)}
Caught(op, error) == Failed(op, error)

Delegated(op, adapter, success, error) ==
    [NoCall EXCEPT !.op = op, !.success = success, !.error = error,
                   !.adapter = adapter.instance]

\* the adapter connect binds: a newly built one
AdapterToBind(broker) == NewAdapter(broker, adapters_built + 1)

connect(broker, credentials) ==
    IF broker = None
    THEN /\ last' = [Caught("connect", "AttributeError") EXCEPT !.broker = broker]
         /\ UNCHANGED brokerVars
    ELSE IF ~is_supported(broker)
    THEN /\ last' = [Failed("connect", "Unsupported broker")
                        EXCEPT !.broker = broker, !.supported = get_supported_brokers]
         /\ UNCHANGED brokerVars
    ELSE IF ~Instantiable(adapters[Lower(broker)])
    THEN /\ last' = [Caught("connect", "TypeError") EXCEPT !.broker = broker]
         /\ UNCHANGED brokerVars
    ELSE /\ adapters_built < MaxAdapters
         /\ LET built == AdapterToBind(broker)
                ok == ConnectSucceeds(built, credentials) IN
            /\ adapters_built' = adapters_built + 1
            /\ broker_adapter' = AfterConnect(built, credentials)
            /\ connected_broker' = IF ok THEN broker ELSE connected_broker
            /\ ever_connected' = (ever_connected \/ ok)
            /\ connected_adapter' = IF ok THEN built.instance ELSE connected_adapter
            /\ last' = [Delegated("connect", built, ok,
                                  IF ok THEN "" ELSE ConnectError(built, credentials))
                           EXCEPT !.broker = broker,
                                  !.replaced = broker_adapter.instance,
                                  !.credentials = credentials]
         /\ UNCHANGED <<api_keys, adapters>>

\* a disconnect that keeps the adapter it disconnected
disconnect_keeps_adapter ==
    /\ last' = IF broker_adapter = NoAdapter
               THEN [NoCall EXCEPT !.op = "disconnect", !.error = "No broker connected"]
               ELSE Delegated("disconnect", broker_adapter, TRUE, "")
    /\ UNCHANGED brokerVars

\* both adapters' disconnect drop the session and return success
disconnect ==
    IF broker_adapter = NoAdapter
    THEN /\ last' = [NoCall EXCEPT !.op = "disconnect", !.error = "No broker connected"]
         /\ UNCHANGED brokerVars
    ELSE /\ connected_broker' = None
         /\ broker_adapter' = NoAdapter
         /\ last' = Delegated("disconnect", broker_adapter, TRUE, "")
         /\ connected_adapter' = 0
         /\ UNCHANGED <<api_keys, adapters, adapters_built, ever_connected>>

\* the sub-calls of get_portfolio, in order; the session may run out before
\* any of the three adapter reads (expires_before = 4: it does not)
SubCalls == <<"holdings", "positions", "margin">>
FirstFailure(adapter, expires_before) ==
    IF adapter.demo_mode THEN 0
    ELSE IF ~check_session(adapter) THEN 1
    ELSE IF expires_before <= 3 THEN expires_before
    ELSE 0

\* the keys of the portfolio get_portfolio composes
PortfolioParts(pledged_ok) ==
    {"holdings", "positions", "margin"} \cup
    (IF pledged_ok THEN {"pledged_holdings"} ELSE {})

get_portfolio(expires_before, auth_ok) ==
    IF broker_adapter = NoAdapter
    THEN /\ last' = Failed("get_portfolio", "No broker connected")
         /\ UNCHANGED <<brokerVars, pledgeVars>>
    ELSE LET failure == FirstFailure(broker_adapter, expires_before)
             pledged_ok == demo_mode \/ EnsureAuthenticated(auth_ok) IN
         /\ broker_adapter' =
               IF ~broker_adapter.demo_mode /\ check_session(broker_adapter)
                  /\ expires_before <= 3
               THEN [broker_adapter EXCEPT !.expired = TRUE]
               ELSE broker_adapter
         /\ IF failure # 0
            THEN /\ last' = Delegated("get_portfolio", broker_adapter, FALSE,
                                      "Session expired. Please reconnect.")
                 /\ UNCHANGED pledgeVars
            ELSE /\ last' = [Delegated("get_portfolio", broker_adapter, TRUE, "")
                                EXCEPT !.parts = PortfolioParts(pledged_ok)]
                 /\ session_valid' = IF demo_mode THEN session_valid ELSE pledged_ok
                 /\ UNCHANGED <<demo_mode, demo_pledged_holdings, demo_pledge_requests,
                                next_pledge_id, unpledged, authorizations>>
         /\ UNCHANGED <<api_keys, adapters, connected_broker, adapters_built,
                        ever_connected, connected_adapter>>

place_order(order_params) ==
    /\ last' =
         IF broker_adapter = NoAdapter
         THEN Failed("place_order", "No broker connected")
         ELSE IF order_params = "None"
         THEN [Caught("place_order", "TypeError") EXCEPT !.adapter = broker_adapter.instance]
         ELSE IF order_params = "incomplete"
         THEN Delegated("place_order", broker_adapter, FALSE,
                        "Missing required parameter")
         ELSE IF ReadSucceeds(broker_adapter)
         THEN Delegated("place_order", broker_adapter, TRUE, "")
         ELSE Delegated("place_order", broker_adapter, FALSE,
                        "Session expired. Please reconnect.")
    /\ UNCHANGED <<brokerVars, pledgeVars>>

\* get_order_status and get_order_history
OrderRead(op) ==
    /\ last' =
         IF broker_adapter = NoAdapter
         THEN Failed(op, "No broker connected")
         ELSE IF ReadSucceeds(broker_adapter)
         THEN Delegated(op, broker_adapter, TRUE, "")
         ELSE Delegated(op, broker_adapter, FALSE, "Session expired. Please reconnect.")
    /\ UNCHANGED <<brokerVars, pledgeVars>>

get_order_status == OrderRead("get_order_status")
get_order_history == OrderRead("get_order_history")

\* time.time() reaches the bound adapter's session_expiry
AdapterSessionExpires ==
    /\ broker_adapter # NoAdapter
    /\ check_session(broker_adapter)
    /\ broker_adapter' = [broker_adapter EXCEPT !.expired = TRUE]
    /\ last' = [NoCall EXCEPT !.op = "time"]
    /\ UNCHANGED <<api_keys, adapters, connected_broker, adapters_built,
                   ever_connected, connected_adapter, pledgeVars>>

\* the pledge operations of UnifiedBrokerService: pledge_service is set by
\* __init__ and never cleared, so each one calls the pledge service
PledgeServiceSet == TRUE

\* a facade that asks for a bound adapter before a pledge operation
FacadeNeedsBroker(op, call) ==
    IF broker_adapter = NoAdapter
    THEN /\ last' = Failed(op, "No broker connected")
         /\ UNCHANGED <<brokerVars, pledgeVars>>
    ELSE call /\ UNCHANGED brokerVars

Facade(op, call) ==
    IF PledgeServiceSet
    THEN call /\ UNCHANGED brokerVars
    ELSE /\ last' = Failed(op, "Pledge service not initialized")
         /\ UNCHANGED <<brokerVars, pledgeVars>>

ubs_create_pledge_request(stock_id, quantity) ==
    Facade("create_pledge_request", create_pledge_request(stock_id, quantity))
ubs_unpledge_request(pledge_id, quantity) ==
    Facade("unpledge_request", unpledge_request(pledge_id, quantity))
ubs_get_pledge_status(pledge_id) ==
    Facade("get_pledge_status", get_pledge_status(pledge_id))
ubs_get_pledged_holdings ==
    Facade("get_pledged_holdings", get_pledged_holdings)
ubs_authorize_pledge(pledge_id, otp) ==
    IF demo_mode /\ pledge_id \in DOMAIN demo_pledge_requests /\ OtpRaises(otp)
    THEN /\ last' = [Caught("authorize_pledge", "TypeError")
                       EXCEPT !.id = pledge_id, !.otp = otp]
         /\ UNCHANGED <<brokerVars, pledgeVars>>
    ELSE Facade("authorize_pledge", authorize_pledge(pledge_id, otp))
ubs_request_pledge_otp(pledge_id) ==
    Facade("request_pledge_otp", request_pledge_otp(pledge_id))

-----------------------------------------------------------------------------
(* The adapter operations, called on the adapter object itself *)

AdapterReads ==
    {"get_profile", "get_holdings", "get_positions", "get_margin",
     "get_order_status", "get_order_history"}
OrderChanges == {"modify_order", "cancel_order"}

\* the data a read returns: the fixed data the adapter holds for that read
Snapshot(op) == {op}

adapter_connect(credentials) ==
    LET ok == ConnectSucceeds(broker_adapter, credentials) IN
    /\ broker_adapter' = AfterConnect(broker_adapter, credentials)
    /\ last' = [Delegated("connect", broker_adapter, ok,
                          IF ok THEN "" ELSE ConnectError(broker_adapter, credentials))
                   EXCEPT !.credentials = credentials]

adapter_disconnect ==
    /\ broker_adapter' = AfterDisconnect(broker_adapter)
    /\ last' = Delegated("disconnect", broker_adapter, TRUE, "")

adapter_read(op) ==
    /\ last' = IF ReadSucceeds(broker_adapter)
               THEN [Delegated(op, broker_adapter, TRUE, "") EXCEPT !.parts = Snapshot(op)]
               ELSE Delegated(op, broker_adapter, FALSE, "Session expired. Please reconnect.")
    /\ UNCHANGED broker_adapter

\* place_order looks for the required parameters before anything else
adapter_place_order(order_params) ==
    /\ last' =
         [ (IF order_params = "None"
            THEN [Raise("place_order", "TypeError") EXCEPT !.adapter = broker_adapter.instance]
            ELSE IF order_params = "incomplete"
            THEN Delegated("place_order", broker_adapter, FALSE, "Missing required parameter")
            ELSE IF ReadSucceeds(broker_adapter)
            THEN Delegated("place_order", broker_adapter, TRUE, "")
            ELSE Delegated("place_order", broker_adapter, FALSE,
                           "Session expired. Please reconnect."))
           EXCEPT !.order_params = order_params ]
    /\ UNCHANGED broker_adapter

\* modify_order and cancel_order
adapter_order_change(op) ==
    /\ last' = IF ReadSucceeds(broker_adapter)
               THEN Delegated(op, broker_adapter, TRUE, "")
               ELSE Delegated(op, broker_adapter, FALSE, "Session expired. Please reconnect.")
    /\ UNCHANGED broker_adapter

\* one adapter of either class, built with or without its API key in the
\* environment
InitAdapter ==
    /\ PledgeInit
    /\ demo_mode
    /\ api_keys \in SUBSET Brokers
    /\ adapters = Registered
    /\ \E broker \in Brokers :
          broker_adapter = [broker |-> broker, class |-> Registered[broker].name,
                            instance |-> 1,
                            demo_mode |-> ApiKeyOf(Registered[broker].name) \notin api_keys,
                            access_token |-> FALSE, user_id |-> FALSE,
                            session_expiry |-> FALSE, expired |-> FALSE]
    /\ connected_broker = None
    /\ adapters_built = 1
    /\ ever_connected = FALSE
    /\ connected_adapter = 0
    /\ last = NoCall
    /\ pred = None
    /\ threads = None

AdapterConnect ==
    /\ \E credentials \in Credentials : adapter_connect(credentials)
    /\ UNCHANGED <<api_keys, adapters, connected_broker, adapters_built,
                   ever_connected, connected_adapter, pledgeVars, otherVars>>
AdapterDisconnect ==
    /\ adapter_disconnect
    /\ UNCHANGED <<api_keys, adapters, connected_broker, adapters_built,
                   ever_connected, connected_adapter, pledgeVars, otherVars>>
AdapterRead ==
    /\ \E op \in AdapterReads : adapter_read(op)
    /\ UNCHANGED <<api_keys, adapters, connected_broker, adapters_built,
                   ever_connected, connected_adapter, pledgeVars, otherVars>>
AdapterPlaceOrder ==
    /\ \E order_params \in OrderParams : adapter_place_order(order_params)
    /\ UNCHANGED <<api_keys, adapters, connected_broker, adapters_built,
                   ever_connected, connected_adapter, pledgeVars, otherVars>>
AdapterOrderChange ==
    /\ \E op \in OrderChanges : adapter_order_change(op)
    /\ UNCHANGED <<api_keys, adapters, connected_broker, adapters_built,
                   ever_connected, connected_adapter, pledgeVars, otherVars>>
AdapterTimePasses ==
    /\ AdapterSessionExpires
    /\ UNCHANGED otherVars

NextAdapter ==
    \/ AdapterConnect
    \/ AdapterDisconnect
    \/ AdapterRead
    \/ AdapterPlaceOrder
    \/ AdapterOrderChange
    \/ AdapterTimePasses

SpecAdapter == InitAdapter /\ [][NextAdapter]_vars

-----------------------------------------------------------------------------
(* The account facade: any sequence of UnifiedBrokerService operations *)

\* the arguments a caller of the facade passes
BrokerNames == {"zerodha", "fyers", "ZERODHA", "upstox", None}
FacadeIds == {<<"PL", FirstNewNum>>, <<"UP", SeedNum1>>}
\* no OTP, a 6-digit string, and the number 123456
FacadeOtps == {NoOtp, Str(<<"1", "2", "3", "4", "5", "6">>), [type |-> "int", chars |-> <<>>]}

InitBroker ==
    /\ PledgeInit
    /\ api_keys \in SUBSET Brokers
    /\ adapters = Registered
    /\ broker_adapter = NoAdapter
    /\ connected_broker = None
    /\ adapters_built = 0
    /\ ever_connected = FALSE
    /\ connected_adapter = 0
    /\ last = NoCall
    /\ pred = None
    /\ threads = None

Connect ==
    /\ \E broker \in BrokerNames, credentials \in Credentials :
          connect(broker, credentials)
    /\ UNCHANGED <<pledgeVars, otherVars>>
\* a disconnect that starts the pledge service's requests afresh
DisconnectDropsRequests ==
    /\ disconnect
    /\ demo_pledge_requests' = [x \in {} |-> x]
    /\ UNCHANGED <<demo_mode, session_valid, demo_pledged_holdings, next_pledge_id,
                   unpledged, authorizations, otherVars>>
Disconnect ==
    /\ disconnect
    /\ UNCHANGED <<pledgeVars, otherVars>>
GetPortfolio ==
    /\ \E expires_before \in 1 .. 4, auth_ok \in BOOLEAN :
          get_portfolio(expires_before, auth_ok)
    /\ UNCHANGED otherVars
PlaceOrder ==
    /\ \E order_params \in OrderParams : place_order(order_params)
    /\ UNCHANGED otherVars
GetOrderStatus ==
    /\ get_order_status
    /\ UNCHANGED otherVars
GetOrderHistory ==
    /\ get_order_history
    /\ UNCHANGED otherVars
TimePasses ==
    /\ AdapterSessionExpires
    /\ UNCHANGED otherVars
CreatePledgeRequest ==
    /\ CreateAllowed(MaxCreates)
    /\ ubs_create_pledge_request("RELIANCE", 1)
    /\ UNCHANGED otherVars
UnpledgeRequest ==
    /\ ubs_unpledge_request(<<"PL", SeedNum1>>, 1)
    /\ UNCHANGED otherVars
GetPledgeStatus ==
    /\ \E pledge_id \in FacadeIds : ubs_get_pledge_status(pledge_id)
    /\ UNCHANGED otherVars
GetPledgedHoldings ==
    /\ ubs_get_pledged_holdings
    /\ UNCHANGED otherVars
AuthorizePledge ==
    /\ \E pledge_id \in FacadeIds, otp \in FacadeOtps :
          ubs_authorize_pledge(pledge_id, otp)
    /\ UNCHANGED otherVars
RequestPledgeOtp ==
    /\ \E pledge_id \in FacadeIds : ubs_request_pledge_otp(pledge_id)
    /\ UNCHANGED otherVars

NextBroker ==
    \/ Connect
    \/ Disconnect
    \/ GetPortfolio
    \/ PlaceOrder
    \/ GetOrderStatus
    \/ GetOrderHistory
    \/ TimePasses
    \/ CreatePledgeRequest
    \/ UnpledgeRequest
    \/ GetPledgeStatus
    \/ GetPledgedHoldings
    \/ AuthorizePledge
    \/ RequestPledgeOtp

SpecBroker == InitBroker /\ [][NextBroker]_vars

-----------------------------------------------------------------------------
(* PredictionService.  Fractions (reductions, factors) are integers in units
   of 1/100000; volatility is in units of 0.01, sentiment score, confidence
   and correlation in units of 0.1; margins are in thousands of rupees, and
   optimized_margin and potential_savings in units of 1/100 rupee.          *)

\* the units of a fraction
Scale == 100000
\* base_reduction = 0.05
BaseReduction == 5000
\* the lower and upper bound of the rule's reduction: 0.05, 0.25
MinReduction == 5000
MaxReduction == 25000
\* 0.10 in volatility_factor, and the value of one volatility unit (0.01)
VolatilityCeiling == 10000
VolatilityUnit == 1000
\* index_factor = 0.02 or -0.02
IndexStep == 2000
\* sentiment_score * sentiment_confidence * 0.05, for units of 0.1 * 0.1
SentimentUnit == 50
\* (1 - avg_correlation) * 0.04, for units of 0.1
CorrelationUnit == 400
\* 1 in units of 0.1
One == 10
\* features.get('avg_correlation', 0.5)
DefaultCorrelation == 5
\* the confidence tags 0.85 and 0.65, in units of 0.01
ModelConfidence == 85
RuleConfidence == 65

\* the inputs of the model checked
Margins == {0 - 1, 0, 350, 4200}
Volatilities == {0, 5, 30}
IndexChanges == {0 - 1, 0, 1}
SentimentScores == {0 - 10, 6, 10}
SentimentConfidences == {8, 10}
\* avg_correlation is missing from the features when there is no
\* correlation data
NoCorrelation == [present |-> FALSE, value |-> 0]
Correlations == {NoCorrelation} \cup {[present |-> TRUE, value |-> c] : c \in {0, 4, 10}}
\* what model.predict does: it raises, or it returns a fraction
Raises == [raises |-> TRUE, value |-> 0]
Returns(value) == [raises |-> FALSE, value |-> value]
PredictOutcomes ==
    {Raises} \cup {Returns(v) : v \in {0 - 5000, 5000, 16800, 25000, 40000}}

PredictInputs ==
    [prepare_raises : BOOLEAN, model_loaded : BOOLEAN, row_raises : BOOLEAN,
     predict : PredictOutcomes,
     current_margin : Margins, avg_volatility : Volatilities,
     nifty_change_pct : IndexChanges, overall_sentiment_score : SentimentScores,
     overall_sentiment_confidence : SentimentConfidences,
     avg_correlation : Correlations]

volatility_factor(in) == Max(0, VolatilityCeiling - in.avg_volatility * VolatilityUnit)
\* an index term that is 0 when the index did not move
index_factor_flat_at_zero(in) ==
    IF in.nifty_change_pct > 0 THEN IndexStep
    ELSE IF in.nifty_change_pct = 0 THEN 0 ELSE 0 - IndexStep
index_factor(in) == IF in.nifty_change_pct > 0 THEN IndexStep ELSE 0 - IndexStep
sentiment_factor(in) ==
    in.overall_sentiment_score * in.overall_sentiment_confidence * SentimentUnit
correlation_factor(in) ==
    (One - (IF in.avg_correlation.present THEN in.avg_correlation.value
            ELSE DefaultCorrelation)) * CorrelationUnit

\* max(0.05, min(0.25, reduction_percentage))
Clamp(reduction) == Max(MinReduction, Min(MaxReduction, reduction))

rule_reduction(in) ==
    Clamp(BaseReduction + volatility_factor(in) + index_factor(in)
          + sentiment_factor(in) + correlation_factor(in))

\* a result whose savings are taken from the optimized margin
ResultSavingsOfOptimized(current_margin, reduction, method, confidence, factors) ==
    [raised |-> FALSE,
     current_margin |-> current_margin,
     optimized_margin |-> current_margin * (Scale - reduction),
     reduction |-> reduction,
     reduction_percent |-> reduction * 100,
     potential_savings |-> current_margin * (Scale - reduction) - current_margin * Scale,
     method |-> method, confidence |-> confidence, factors |-> factors]

\* the dict both strategies return; reduction_percent is in units of 1/100000
\* percent
OptimizationResult(current_margin, reduction, method, confidence, factors) ==
    [raised |-> FALSE,
     current_margin |-> current_margin,
     optimized_margin |-> current_margin * (Scale - reduction),
     reduction |-> reduction,
     reduction_percent |-> reduction * 100,
     potential_savings |-> current_margin * Scale - current_margin * (Scale - reduction),
     method |-> method, confidence |-> confidence, factors |-> factors]

rule_based_optimization(in) ==
    OptimizationResult(in.current_margin, rule_reduction(in), "rule_based",
                       RuleConfidence,
                       {"base_reduction", "volatility_factor", "index_factor",
                        "sentiment_factor", "correlation_factor"})

\* an exception that leaves predict_optimal_margin
Raised ==
    [raised |-> TRUE, current_margin |-> 0, optimized_margin |-> 0, reduction |-> 0,
     reduction_percent |-> 0, potential_savings |-> 0, method |-> "", confidence |-> 0, factors |-> {}]

\* the model branch raises: building the row, or predict
ModelRaises(in) == in.row_raises \/ in.predict.raises

\* predict_optimal_margin without its try/except
predict_optimal_margin_no_fallback(in) ==
    IF in.prepare_raises THEN Raised
    ELSE IF ~in.model_loaded THEN rule_based_optimization(in)
    ELSE IF ModelRaises(in) THEN Raised
    ELSE OptimizationResult(in.current_margin, in.predict.value, "ml_model",
                            ModelConfidence, {})

\* _prepare_features runs before the try: what it raises leaves the call
predict_optimal_margin(in) ==
    IF in.prepare_raises THEN Raised
    ELSE IF ~in.model_loaded THEN rule_based_optimization(in)
    ELSE IF ModelRaises(in) THEN rule_based_optimization(in)
    ELSE OptimizationResult(in.current_margin, in.predict.value, "ml_model",
                            ModelConfidence, {})

\* one call of predict_optimal_margin on inputs chosen at the start
NoResult == [raised |-> FALSE, current_margin |-> 0, optimized_margin |-> 0,
             reduction |-> 0, reduction_percent |-> 0, potential_savings |-> 0, method |-> "none",
             confidence |-> 0, factors |-> {}]

InitPredict ==
    /\ PledgeInit
    /\ demo_mode = TRUE
    /\ BrokerIdle
    /\ last = NoCall
    /\ \E in \in PredictInputs : pred = [in |-> in, result |-> NoResult]
    /\ threads = None

Predict ==
    /\ pred.result = NoResult
    /\ pred' = [pred EXCEPT !.result = predict_optimal_margin(pred.in)]
    /\ UNCHANGED <<pledgeVars, brokerVars, last, threads>>

NextPredict == Predict

SpecPredict == InitPredict /\ [][NextPredict]_vars

-----------------------------------------------------------------------------
(* Claims about the pledge workflow *)

Completed(requests) ==
    {id \in DOMAIN requests : requests[id].status = "COMPLETED"}

\* a string of exactly 6 digits
SixDigits(otp) ==
    /\ otp.type = "str"
    /\ Len(otp.chars) = 6
    /\ \A i \in 1 .. Len(otp.chars) :
          otp.chars[i] \in {"0", "1", "2", "3", "4", "5", "6", "7", "8", "9"}

\* C1: in demo mode, authorize_pledge on an id whose request is already
\* COMPLETED returns success:false and leaves the pledged holdings and all
\* request records unchanged.
C1_AuthorizeAtMostOnce ==
    [][ ( /\ demo_mode
          /\ last'.op = "authorize_pledge"
          /\ last'.id \in Completed(demo_pledge_requests) )
        => ( /\ ~last'.success
             /\ demo_pledged_holdings' = demo_pledged_holdings
             /\ demo_pledge_requests' = demo_pledge_requests ) ]_vars

\* C2: the status stored under an id changes only from PENDING_AUTHORIZATION
\* to COMPLETED or REJECTED, and a stored id is never dropped.
C2_StatusTransitions ==
    [][ \A id \in DOMAIN demo_pledge_requests :
          /\ id \in DOMAIN demo_pledge_requests'
          /\ demo_pledge_requests'[id].status # demo_pledge_requests[id].status
               => /\ demo_pledge_requests[id].status = "PENDING_AUTHORIZATION"
                  /\ demo_pledge_requests'[id].status \in {"COMPLETED", "REJECTED"} ]_vars

\* the pledge numbers that have had a pledge record, and the quantity each
\* record was pledged with
Pledged ==
    {SeedNum1, SeedNum2} \cup
    {n \in PledgeNums : <<"PL", n>> \in Completed(demo_pledge_requests)}
OriginalQuantity(n) ==
    IF n = SeedNum1 THEN SeedQty1
    ELSE IF n = SeedNum2 THEN SeedQty2
    ELSE demo_pledge_requests[<<"PL", n>>].quantity

\* C3: for every pledge record the unpledge quantities applied to it sum to at
\* most its original quantity, and the record is absent from the pledged
\* holdings exactly when the sum equals the original quantity.
C3_UnpledgedWithinPledged ==
    \A n \in Pledged :
        /\ unpledged[n] <= OriginalQuantity(n)
        /\ (FirstIndex(demo_pledged_holdings, <<"PL", n>>) = 0)
              <=> (unpledged[n] = OriginalQuantity(n))

-----------------------------------------------------------------------------
(* Claims about the margin optimizer *)

\* C5: on every path of predict_optimal_margin that returns, for every
\* current_margin >= 0, the applied reduction lies in [0.05, 0.25],
\* optimized_margin <= current_margin and
\* 0.05 x current_margin <= potential_savings <= 0.25 x current_margin,
\* whatever predict returned.
C5_ReductionWithinBounds ==
    ( /\ pred.result # NoResult
      /\ ~pred.result.raised
      /\ pred.in.current_margin >= 0 )
    => ( /\ pred.result.reduction >= MinReduction
         /\ pred.result.reduction <= MaxReduction
         /\ pred.result.optimized_margin <= pred.in.current_margin * Scale
         /\ pred.result.potential_savings >= pred.in.current_margin * MinReduction
         /\ pred.result.potential_savings <= pred.in.current_margin * MaxReduction )

\* C6: once the features are prepared, the call returns and never raises; the
\* result is tagged ml_model with confidence 0.85 exactly when an artifact is
\* loaded and neither building the feature row nor predict raises; in every
\* other case it is the rule strategy's result, tagged rule_based with
\* confidence 0.65 and the breakdown of the five factors.
C6_ModelFirstRuleFallback ==
    (pred.result # NoResult /\ ~pred.in.prepare_raises)
    => ( /\ ~pred.result.raised
         /\ IF pred.in.model_loaded /\ ~pred.in.row_raises /\ ~pred.in.predict.raises
            THEN /\ pred.result.method = "ml_model"
                 /\ pred.result.confidence = 85
                 /\ pred.result.reduction = pred.in.predict.value
            ELSE /\ pred.result.method = "rule_based"
                 /\ pred.result.confidence = 65
                 /\ Cardinality(pred.result.factors) = 5
                 /\ pred.result.reduction >= 5000
                 /\ pred.result.reduction <= 25000 )

\* C6 witness: an artifact is loaded, predict raised, and the caller got the
\* rule strategy's result.
C6_Witness ==
    /\ pred.in.model_loaded
    /\ ~pred.in.prepare_raises
    /\ ~pred.in.row_raises
    /\ pred.in.predict.raises
    /\ pred.result.method = "rule_based"
    /\ ~pred.result.raised

-----------------------------------------------------------------------------
(* Claims about the account facade *)

PortfolioCalls == {"get_portfolio", "place_order", "get_order_status", "get_order_history"}
PledgeCalls == {"create_pledge_request", "unpledge_request", "request_pledge_otp",
                "authorize_pledge"}

C8_FailFastWithoutAdapter ==
    [][ last'.op \in PortfolioCalls
        => IF ~ever_connected \/ broker_adapter = NoAdapter
           THEN /\ ~last'.success
                /\ last'.error = "No broker connected"
                /\ last'.adapter = 0
                /\ UNCHANGED <<brokerVars, pledgeVars>>
           ELSE last'.adapter = broker_adapter.instance ]_vars

\* C9 as stated: with no adapter bound, the four pledge operations fail with
\* 'No broker connected' and create or change no pledge record.
C9_PledgeNeedsBroker ==
    [][ (broker_adapter = NoAdapter /\ last'.op \in PledgeCalls)
        => ( /\ ~last'.success
             /\ last'.error = "No broker connected"
             /\ UNCHANGED pledgeVars ) ]_vars

\* C9: with no adapter bound, the four pledge operations are handed to the
\* pledge service as they are with a broker connected: none returns
\* 'No broker connected', none touches the broker state, and in demo mode
\* create_pledge_request stores a new PENDING_AUTHORIZATION request,
\* unpledge_request of a held pledge stores its unpledge request,
\* request_pledge_otp succeeds on a stored id, and authorize_pledge with a
\* 6-digit OTP completes a stored request.
C9_PledgeWithoutBroker ==
    [][ (broker_adapter = NoAdapter /\ last'.op \in PledgeCalls)
        => ( /\ last'.error # "No broker connected"
             /\ UNCHANGED brokerVars
             /\ (demo_mode /\ last'.op = "create_pledge_request")
                   => ( /\ last'.success
                        /\ last'.result_id \notin DOMAIN demo_pledge_requests
                        /\ last'.result_id \in DOMAIN demo_pledge_requests'
                        /\ demo_pledge_requests'[last'.result_id].status
                              = "PENDING_AUTHORIZATION" )
             /\ ( /\ demo_mode
                  /\ last'.op = "unpledge_request"
                  /\ FirstIndex(demo_pledged_holdings, last'.id) # 0 )
                   => ( /\ last'.success
                        /\ last'.result_id \in DOMAIN demo_pledge_requests'
                        /\ demo_pledge_requests'[last'.result_id].pledge_id = last'.id )
             /\ ( /\ demo_mode
                  /\ last'.op = "request_pledge_otp"
                  /\ last'.id \in DOMAIN demo_pledge_requests )
                   => last'.success
             /\ ( /\ demo_mode
                  /\ last'.op = "authorize_pledge"
                  /\ last'.id \in DOMAIN demo_pledge_requests
                  /\ SixDigits(last'.otp) )
                   => ( /\ last'.success
                        /\ last'.id \in Completed(demo_pledge_requests') ) ) ]_vars

\* C9 witness: no adapter was ever built, and a pledge request created on the
\* facade has been authorized and is in the pledged holdings.
C9_Witness ==
    /\ adapters_built = 0
    /\ broker_adapter = NoAdapter
    /\ demo_mode
    /\ last.op = "authorize_pledge"
    /\ last.success
    /\ <<"PL", FirstNewNum>> \in Completed(demo_pledge_requests)
    /\ FirstIndex(demo_pledged_holdings, <<"PL", FirstNewNum>>) # 0

\* C10: a successful connect(b, creds) binds one newly built adapter of
\* broker b, also in place of an earlier one, and sets connected_broker to b;
\* until the next successful connect or disconnect every portfolio or order
\* call is delegated to that adapter and to no other.
C10_OneAdapterPerAccount ==
    [][ /\ (last'.op = "connect" /\ last'.success)
             => ( /\ broker_adapter'.instance = adapters_built + 1
                  /\ last'.adapter = broker_adapter'.instance
                  /\ broker_adapter'.broker = Lower(last'.broker)
                  /\ connected_broker' = last'.broker )
        /\ (last'.op \in PortfolioCalls /\ connected_adapter # 0)
             => last'.adapter = connected_adapter ]_vars

-----------------------------------------------------------------------------
(* Claims about the pledge operations, one by one *)

Pending(requests) ==
    {id \in DOMAIN requests : requests[id].status = "PENDING_AUTHORIZATION"}

\* C11: authorize_pledge on a stored PENDING_AUTHORIZATION request with an
\* OTP that is not a string of exactly 6 digits fails with the OTP error and
\* changes neither the request records nor the pledged holdings; with a
\* 6-digit OTP the same request is authorized, whatever was tried before.
C11_MalformedOtpChangesNothing ==
    [][ ( /\ demo_mode
          /\ last'.op = "authorize_pledge"
          /\ last'.id \in Pending(demo_pledge_requests) )
        => IF SixDigits(last'.otp)
           THEN /\ last'.success
                /\ last'.id \in Completed(demo_pledge_requests')
           ELSE /\ ~last'.success
                /\ last'.error = "Invalid OTP"
                /\ demo_pledge_requests' = demo_pledge_requests
                /\ demo_pledged_holdings' = demo_pledged_holdings ]_vars

\* C11 witness: a malformed OTP was refused and the request is still pending.
C11_Witness ==
    /\ demo_mode
    /\ last.op = "authorize_pledge"
    /\ ~last.success
    /\ last.error = "Invalid OTP"
    /\ last.otp # NoOtp
    /\ last.id \in Pending(demo_pledge_requests)

\* C12: authorize_pledge, request_pledge_otp and get_pledge_status on an id
\* that is not in the request store (and, for get_pledge_status, not in the
\* pledged holdings either) return success:false with the not-found error,
\* whatever the OTP, and change no request record and no pledged holding.
C12_UnknownIdNotFound ==
    [][ ( /\ demo_mode
          /\ last'.op \in {"authorize_pledge", "request_pledge_otp", "get_pledge_status"}
          /\ last'.id \notin DOMAIN demo_pledge_requests
          /\ last'.op = "get_pledge_status"
                => FirstIndex(demo_pledged_holdings, last'.id) = 0 )
        => ( /\ ~last'.success
             /\ last'.error = "not found"
             /\ demo_pledge_requests' = demo_pledge_requests
             /\ demo_pledged_holdings' = demo_pledged_holdings ) ]_vars

\* C12 witness: an id the service never issued was refused although the OTP
\* was well formed, after requests had been stored.
C12_Witness ==
    /\ demo_mode
    /\ last.op = "authorize_pledge"
    /\ last.id = UnknownId
    /\ SixDigits(last.otp)
    /\ ~last.success
    /\ last.error = "not found"
    /\ DOMAIN demo_pledge_requests # {}

\* C13: unpledge_request(pledge_id, quantity) succeeds exactly when pledge_id
\* names an ACTIVE pledged record whose quantity is at least the requested
\* one; then it stores a PENDING_AUTHORIZATION unpledge record of that pledge
\* with exactly the requested quantity; otherwise it fails and stores nothing.
C13_UnpledgeWithinRemaining ==
    [][ (demo_mode /\ last'.op = "unpledge_request")
        => LET i == FirstIndex(demo_pledged_holdings, last'.id) IN
           IF /\ i # 0
              /\ demo_pledged_holdings[i].status = "ACTIVE"
              /\ demo_pledged_holdings[i].quantity >= last'.quantity
           THEN /\ last'.success
                /\ last'.result_id \in Pending(demo_pledge_requests')
                /\ demo_pledge_requests'[last'.result_id].pledge_id = last'.id
                /\ demo_pledge_requests'[last'.result_id].quantity = last'.quantity
           ELSE /\ ~last'.success
                /\ demo_pledge_requests' = demo_pledge_requests ]_vars

\* C14: a successful create_pledge_request with quantity > 0 returns an id
\* that is neither in the request store (the ids returned so far) nor the
\* pledge id of a pledged record, stores under it a PENDING_AUTHORIZATION
\* request of that quantity, and leaves the pledged holdings and every other
\* request record unchanged.
C14_CreateStoresFreshId ==
    [][ ( /\ demo_mode
          /\ last'.op = "create_pledge_request"
          /\ last'.success
          /\ last'.quantity > 0 )
        => LET id == last'.result_id IN
           /\ id \notin DOMAIN demo_pledge_requests
           /\ \A i \in 1 .. Len(demo_pledged_holdings) :
                 demo_pledged_holdings[i].pledge_id # id
           /\ DOMAIN demo_pledge_requests' = DOMAIN demo_pledge_requests \cup {id}
           /\ demo_pledge_requests'[id].pledge_id = id
           /\ demo_pledge_requests'[id].status = "PENDING_AUTHORIZATION"
           /\ demo_pledge_requests'[id].quantity = last'.quantity
           /\ \A k \in DOMAIN demo_pledge_requests :
                 demo_pledge_requests'[k] = demo_pledge_requests[k]
           /\ demo_pledged_holdings' = demo_pledged_holdings ]_vars

\* C14 witness: a second create_pledge_request returned a second id while
\* the first request and an unpledge request are stored.
C14_Witness ==
    /\ demo_mode
    /\ last.op = "create_pledge_request"
    /\ last.success
    /\ last.quantity > 0
    /\ last.result_id = <<"PL", FirstNewNum + 1>>
    /\ {<<"PL", FirstNewNum>>, <<"PL", FirstNewNum + 1>>, <<"UP", SeedNum1>>}
          \subseteq DOMAIN demo_pledge_requests

\* C15: create_pledge_request and unpledge_request with a quantity <= 0 fail
\* and store no request; so no authorize_pledge adds a pledged record of
\* quantity <= 0 or increases the quantity of a pledged record.
C15_NonPositiveQuantityRejected ==
    [][ /\ ( /\ demo_mode
              /\ last'.op \in {"create_pledge_request", "unpledge_request"}
              /\ last'.quantity <= 0 )
            => ( /\ ~last'.success
                 /\ demo_pledge_requests' = demo_pledge_requests )
        /\ (demo_mode /\ last'.op = "authorize_pledge")
            => ( /\ \A i \in 1 .. Len(demo_pledged_holdings') :
                       demo_pledged_holdings'[i].quantity > 0
                 /\ \A i \in 1 .. Len(demo_pledged_holdings) :
                       \A j \in 1 .. Len(demo_pledged_holdings') :
                          demo_pledged_holdings'[j].pledge_id
                                = demo_pledged_holdings[i].pledge_id
                             => demo_pledged_holdings'[j].quantity
                                   <= demo_pledged_holdings[i].quantity ) ]_vars

\* C16: authorizing a pending pledge request with a well-formed OTP succeeds,
\* makes its status COMPLETED (which get_pledge_status then reports) and
\* appends exactly one record to the pledged holdings: that id, the request's
\* symbol and quantity q, status ACTIVE, collateral value
\* q x 2650.75 x (1 - 0.20); the records pledged before are unchanged.
C16_AuthorizedPledgeIsHeld ==
    [][ /\ ( /\ demo_mode
              /\ last'.op = "authorize_pledge"
              /\ last'.id \in Pending(demo_pledge_requests)
              /\ startswith(last'.id, "PL")
              /\ SixDigits(last'.otp) )
            => LET request == demo_pledge_requests[last'.id]
                   n == Len(demo_pledged_holdings) IN
               /\ last'.success
               /\ demo_pledge_requests'[last'.id].status = "COMPLETED"
               /\ Len(demo_pledged_holdings') = n + 1
               /\ \A i \in 1 .. n : demo_pledged_holdings'[i] = demo_pledged_holdings[i]
               /\ \A i \in 1 .. n : demo_pledged_holdings[i].pledge_id # last'.id
               /\ demo_pledged_holdings'[n + 1].pledge_id = last'.id
               /\ demo_pledged_holdings'[n + 1].symbol = request.symbol
               /\ demo_pledged_holdings'[n + 1].quantity = request.quantity
               /\ demo_pledged_holdings'[n + 1].status = "ACTIVE"
               /\ demo_pledged_holdings'[n + 1].haircut = 20
               /\ demo_pledged_holdings'[n + 1].collateral_value * 100
                     = request.quantity * 265075 * (100 - 20)
        /\ ( /\ demo_mode
              /\ last'.op = "get_pledge_status"
              /\ last'.id \in DOMAIN demo_pledge_requests )
            => ( /\ last'.success
                 /\ last'.status = demo_pledge_requests[last'.id].status ) ]_vars

\* C16 witness: the status of the created request reads COMPLETED and its 3
\* shares are the third pledged record.
C16_Witness ==
    /\ demo_mode
    /\ last.op = "get_pledge_status"
    /\ last.id = <<"PL", FirstNewNum>>
    /\ last.status = "COMPLETED"
    /\ Len(demo_pledged_holdings) = 3
    /\ demo_pledged_holdings[3].pledge_id = <<"PL", FirstNewNum>>
    /\ demo_pledged_holdings[3].quantity = 3

\* C17: authorizing a pending unpledge request of quantity u that references
\* a pledged record P succeeds, reduces the quantity of P's record by exactly
\* u, which leaves it >= 0, removes the record when 0 is left, changes no
\* other pledged record, and changes no request record but the status of the
\* authorized one.
C17_UnpledgeDeductsExactly ==
    [][ ( /\ demo_mode
          /\ last'.op = "authorize_pledge"
          /\ last'.id \in Pending(demo_pledge_requests)
          /\ startswith(last'.id, "UP")
          /\ SixDigits(last'.otp)
          /\ FirstIndex(demo_pledged_holdings,
                        demo_pledge_requests[last'.id].pledge_id) # 0 )
        => LET request == demo_pledge_requests[last'.id]
               u == request.quantity
               i == FirstIndex(demo_pledged_holdings, request.pledge_id)
               n == Len(demo_pledged_holdings)
               left == demo_pledged_holdings[i].quantity - u IN
           /\ last'.success
           /\ left >= 0
           /\ IF left = 0
              THEN /\ Len(demo_pledged_holdings') = n - 1
                   /\ \A j \in 1 .. (n - 1) :
                         demo_pledged_holdings'[j] =
                            demo_pledged_holdings[IF j < i THEN j ELSE j + 1]
              ELSE /\ Len(demo_pledged_holdings') = n
                   /\ demo_pledged_holdings'[i].quantity = left
                   /\ demo_pledged_holdings'[i].pledge_id = request.pledge_id
                   /\ \A j \in (1 .. n) \ {i} :
                         demo_pledged_holdings'[j] = demo_pledged_holdings[j]
           /\ DOMAIN demo_pledge_requests' = DOMAIN demo_pledge_requests
           /\ demo_pledge_requests'[last'.id] = [request EXCEPT !.status = "COMPLETED"]
           /\ \A k \in DOMAIN demo_pledge_requests \ {last'.id} :
                 demo_pledge_requests'[k] = demo_pledge_requests[k] ]_vars

\* C17 witness: two authorized unpledge requests, of 3 and of 2 shares, have
\* removed the seeded pledge of 5 shares; the other seeded pledge is held.
C17_Witness ==
    /\ demo_mode
    /\ last.op = "authorize_pledge"
    /\ last.success
    /\ last.id = <<"UP", SeedNum1>>
    /\ unpledged[SeedNum1] = 5
    /\ authorizations = 2
    /\ FirstIndex(demo_pledged_holdings, <<"PL", SeedNum1>>) = 0
    /\ FirstIndex(demo_pledged_holdings, <<"PL", SeedNum2>>) # 0

\* C18: with positive quantities in every call, every pledged record has a
\* quantity above 0 in every reachable state: no quantity is negative, and a
\* record left with 0 is removed.
C18_HeldQuantitiesPositive ==
    \A i \in 1 .. Len(demo_pledged_holdings) : demo_pledged_holdings[i].quantity > 0

\* C18 witness: more was deducted from the seeded pledge of 5 shares than it
\* held, and its record is gone.
C18_Witness ==
    /\ demo_mode
    /\ last.op = "authorize_pledge"
    /\ last.success
    /\ unpledged[SeedNum1] > SeedQty1
    /\ FirstIndex(demo_pledged_holdings, <<"PL", SeedNum1>>) = 0
    /\ Len(demo_pledged_holdings) >= 1

\* C19: the pledge ids of the pledged records are pairwise distinct.
C19_HeldIdsDistinct ==
    \A i, j \in 1 .. Len(demo_pledged_holdings) :
        demo_pledged_holdings[i].pledge_id = demo_pledged_holdings[j].pledge_id => i = j

\* C20: get_pledge_status, get_pledged_holdings and request_pledge_otp, with
\* any id, change no request record, no pledged record and not the next
\* pledge id.
C20_ReadsChangeNothing ==
    [][ last'.op \in {"get_pledge_status", "get_pledged_holdings", "request_pledge_otp"}
        => ( /\ demo_pledge_requests' = demo_pledge_requests
             /\ demo_pledged_holdings' = demo_pledged_holdings
             /\ next_pledge_id' = next_pledge_id ) ]_vars

\* C20 witness: the pledged holdings were read while a pending and a
\* completed request were stored and a third record was held.
C20_Witness ==
    /\ demo_mode
    /\ last.op = "get_pledged_holdings"
    /\ last.success
    /\ Pending(demo_pledge_requests) # {}
    /\ Completed(demo_pledge_requests) # {}
    /\ Len(demo_pledged_holdings) = 3

-----------------------------------------------------------------------------
(* predict_optimal_margin on partial data: each part of the portfolio, the
   market data and the sentiment data is present or missing *)

\* which parts the inputs carry; symbol and pnl are those of the one position,
\* and the sentiment data has an overall entry, has none, or is
\* {"error": ...}
Partials ==
    [holdings : BOOLEAN, positions : BOOLEAN, margin : BOOLEAN, symbol : BOOLEAN,
     pnl : BOOLEAN, volatility : BOOLEAN, indices : BOOLEAN, correlation : BOOLEAN,
     sentiment : {"overall", "no_overall", "error"}]

\* _prepare_features raises: pos.get('symbol') is None for a position without
\* symbol, and None has no split()
prepare_features_raises(partial) == partial.positions /\ ~partial.symbol

\* _prepare_features: the features the two strategies read; what is present
\* has the values of the example, what is missing takes the default of its
\* get(), and avg_correlation is set only with correlation data
prepare_features(partial, model_loaded) ==
    [prepare_raises |-> prepare_features_raises(partial),
     model_loaded |-> model_loaded, row_raises |-> FALSE, predict |-> Returns(16800),
     current_margin |-> IF partial.margin THEN 4200 ELSE 0,
     avg_volatility |-> IF partial.volatility THEN 5 ELSE 0,
     nifty_change_pct |-> IF partial.indices THEN 1 ELSE 0,
     overall_sentiment_score |-> IF partial.sentiment = "overall" THEN 6 ELSE 0,
     overall_sentiment_confidence |-> IF partial.sentiment = "overall" THEN 8 ELSE 0,
     avg_correlation |-> IF partial.correlation THEN [present |-> TRUE, value |-> 4]
                         ELSE NoCorrelation]

InitPartial ==
    /\ PledgeInit
    /\ demo_mode = TRUE
    /\ BrokerIdle
    /\ last = NoCall
    /\ \E partial \in Partials, model_loaded \in BOOLEAN :
          pred = [partial |-> partial, model_loaded |-> model_loaded,
                  result |-> NoResult]
    /\ threads = None

PredictPartial ==
    /\ pred.result = NoResult
    /\ pred' = [pred EXCEPT !.result =
                   predict_optimal_margin(prepare_features(pred.partial,
                                                           pred.model_loaded))]
    /\ UNCHANGED <<pledgeVars, brokerVars, last, threads>>

NextPartial == PredictPartial

SpecPartial == InitPartial /\ [][NextPartial]_vars

-----------------------------------------------------------------------------
(* BrokerFactory: registrations, lookups and creations in any order, with the
   facade connecting and disconnecting in between *)

\* classes a caller registers: the two adapters, a BrokerInterface subclass
\* that leaves cancel_order undefined, and a class that defines every
\* operation without deriving from BrokerInterface
PartialAdapter == Class("PartialAdapter", TRUE, Capabilities \ {"cancel_order"})
DuckAdapter == Class("DuckAdapter", FALSE, Capabilities)
AdapterClasses == {ZerodhaAdapter, FYERSAdapter, PartialAdapter, DuckAdapter}
FactoryNames == {"zerodha", "ZERODHA", "upstox", None}
\* names a caller looks up: those, and one that is never registered
LookupNames == FactoryNames \cup {"angel"}

InitFactory ==
    /\ PledgeInit
    /\ demo_mode
    /\ api_keys \in SUBSET Brokers
    /\ adapters = Registered
    /\ broker_adapter = NoAdapter
    /\ connected_broker = None
    /\ adapters_built = 0
    /\ ever_connected = FALSE
    /\ connected_adapter = 0
    /\ last = NoCall
    /\ pred = None
    /\ threads = None

RegisterAdapter ==
    /\ \E broker_name \in FactoryNames, adapter_class \in AdapterClasses :
          register_adapter(broker_name, adapter_class)
    /\ UNCHANGED <<pledgeVars, otherVars>>
Create ==
    /\ \E broker_name \in LookupNames : create(broker_name)
    /\ UNCHANGED <<pledgeVars, otherVars>>
GetSupportedBrokers ==
    /\ last' = [NoCall EXCEPT !.op = "get_supported_brokers",
                              !.supported = get_supported_brokers]
    /\ UNCHANGED <<brokerVars, pledgeVars, otherVars>>
IsSupported ==
    /\ \E broker_name \in LookupNames :
          last' = IF broker_name = None
                  THEN Raise("is_supported", "AttributeError")
                  ELSE [NoCall EXCEPT !.op = "is_supported", !.broker = broker_name,
                                      !.success = is_supported(broker_name)]
    /\ UNCHANGED <<brokerVars, pledgeVars, otherVars>>
FactoryConnect ==
    /\ \E broker \in LookupNames, credentials \in {Dict({}), Dict({"request_token"})} :
          connect(broker, credentials)
    /\ UNCHANGED <<pledgeVars, otherVars>>
FactoryDisconnect ==
    /\ disconnect
    /\ UNCHANGED <<pledgeVars, otherVars>>

NextFactory ==
    \/ RegisterAdapter
    \/ Create
    \/ GetSupportedBrokers
    \/ IsSupported
    \/ FactoryConnect
    \/ FactoryDisconnect

SpecFactory == InitFactory /\ [][NextFactory]_vars

-----------------------------------------------------------------------------
(* Claims about disconnect, the factory, the adapters and the rule strategy *)

\* C21: disconnect with no adapter bound returns success and changes neither
\* the broker state nor the pledge state; with an adapter bound whose
\* disconnect succeeds it clears the adapter reference and connected_broker,
\* so that the next disconnect is the no-op success again.
C21_DisconnectClears ==
    [][ last'.op = "disconnect"
        => IF broker_adapter = NoAdapter
           THEN /\ last'.success
                /\ last'.error = "No broker connected"
                /\ UNCHANGED <<brokerVars, pledgeVars>>
           ELSE /\ last'.success
                /\ last'.adapter = broker_adapter.instance
                /\ broker_adapter' = NoAdapter
                /\ connected_broker' = None
                /\ UNCHANGED pledgeVars ]_vars

\* C21 witness: a broker was connected and disconnected, and a second
\* disconnect returned the no-op success.
C21_Witness ==
    /\ ever_connected
    /\ last.op = "disconnect"
    /\ last.success
    /\ last.error = "No broker connected"
    /\ broker_adapter = NoAdapter
    /\ connected_broker = None

\* C22: BrokerFactory.create and UnifiedBrokerService.connect, called with a
\* broker name that is not registered, fail with the 'Unsupported broker'
\* error that lists exactly the names registered at that time, build no
\* adapter and leave the registry and the facade's adapter as they were;
\* create raises the error, connect returns it as success:false.
C22_UnsupportedBrokerFails ==
    [][ ( /\ last'.op \in {"create", "connect"}
          /\ last'.broker # None
          /\ Lower(last'.broker) \notin DOMAIN adapters )
        => ( /\ ~last'.success
             /\ last'.error = "Unsupported broker"
             /\ last'.supported = DOMAIN adapters
             /\ last'.raised = (last'.op = "create")
             /\ adapters_built' = adapters_built
             /\ UNCHANGED brokerVars ) ]_vars

\* C22 witness: connect was refused for a name that is not registered, after
\* a third broker had been registered and an adapter had been built, and the
\* refusal lists the three registered names.
C22_Witness ==
    /\ last.op = "connect"
    /\ last.broker = "angel"
    /\ ~last.success
    /\ ~last.raised
    /\ last.supported = {"zerodha", "fyers", "upstox"}
    /\ adapters_built = 1

\* C23: register_adapter of a class deriving from BrokerInterface under a name
\* whose lowered form is already registered stores that class under the
\* lowered name and changes no other entry, so the registered names are the
\* same; and create for a registered name calls the class stored under its
\* lowered name, that is, the one registered last.
C23_RegisterOverwrites ==
    [][ /\ ( /\ last'.op = "register_adapter"
             /\ last'.success
             /\ Lower(last'.broker) \in DOMAIN adapters )
           => ( /\ DOMAIN adapters' = DOMAIN adapters
                /\ adapters'[Lower(last'.broker)].name = last'.class
                /\ \A name \in DOMAIN adapters \ {Lower(last'.broker)} :
                      adapters'[name] = adapters[name] )
        /\ ( /\ last'.op = "create"
             /\ last'.broker # None
             /\ Lower(last'.broker) \in DOMAIN adapters )
           => ( /\ last'.class = adapters[Lower(last'.broker)].name
                /\ last'.success = Instantiable(adapters[Lower(last'.broker)])
                /\ adapters' = adapters ) ]_vars

\* C23 witness: the entry of 'zerodha' was overwritten with the FYERS adapter
\* class, the other entry kept its class, and create('ZERODHA') returned a
\* FYERS adapter.
C23_Witness ==
    /\ last.op = "create"
    /\ last.broker = "ZERODHA"
    /\ last.success
    /\ last.class = "FYERSAdapter"
    /\ adapters["zerodha"] = FYERSAdapter
    /\ adapters["fyers"] = FYERSAdapter
    /\ DOMAIN adapters = {"zerodha", "fyers"}

\* C24: every class in the registry defines the full capability set of
\* BrokerInterface, so that create can instantiate it: register_adapter
\* stores no class that lacks a capability.
C24_RegisteredHaveAllCapabilities ==
    \A name \in DOMAIN adapters :
        /\ adapters[name].defines = Capabilities
        /\ Instantiable(adapters[name])

\* the operations of UnifiedBrokerService
FacadeCalls ==
    {"connect", "disconnect", "get_portfolio", "place_order", "get_order_status",
     "get_order_history", "create_pledge_request", "unpledge_request",
     "get_pledge_status", "get_pledged_holdings", "authorize_pledge",
     "request_pledge_otp"}

\* C25: every operation of UnifiedBrokerService returns a result with a
\* boolean success and raises nothing, whatever its arguments (an unknown or
\* null broker name, null credentials, null order parameters, an OTP that is
\* not a string) and whether or not a broker is connected; an error raised
\* by the factory, the adapter or the pledge service comes back as
\* success:false with the error's text.
C25_FacadeIsTotal ==
    [][ last'.op \in FacadeCalls
        => ( /\ ~last'.raised
             /\ last'.success \in BOOLEAN
             /\ (last'.error \in {"AttributeError", "TypeError"} => ~last'.success) ) ]_vars

\* C25 witness: authorize_pledge was called with the number 123456 on a
\* stored request; len() raised in the pledge service and the facade
\* returned the failure.
C25_Witness ==
    /\ last.op = "authorize_pledge"
    /\ last.otp.type = "int"
    /\ last.id \in DOMAIN demo_pledge_requests
    /\ last.error = "TypeError"
    /\ ~last.success
    /\ ~last.raised

\* the operations of an adapter
AdapterCalls ==
    {"connect", "disconnect", "place_order"} \cup AdapterReads \cup OrderChanges

C27_LiveReadsNeedSession ==
    [][ ~broker_adapter.demo_mode
        => ( /\ ( /\ last'.op \in AdapterReads
                  /\ \/ ~broker_adapter.access_token
                     \/ ~broker_adapter.session_expiry
                     \/ broker_adapter.expired )
                => ( /\ ~last'.success
                     /\ last'.error = "Session expired. Please reconnect."
                     /\ last'.parts = {} )
             /\ last'.op \in {"disconnect", "time"}
                => (~broker_adapter'.access_token \/ broker_adapter'.expired)
             /\ (last'.op = "connect" /\ ~last'.success)
                => ( /\ broker_adapter'.access_token = broker_adapter.access_token
                     /\ broker_adapter'.expired = broker_adapter.expired ) ) ]_vars

\* C27 witness: a live adapter that had connected and whose session then
\* expired refused a read.
C27_Witness ==
    /\ ~broker_adapter.demo_mode
    /\ broker_adapter.access_token
    /\ broker_adapter.expired
    /\ last.op = "get_margin"
    /\ ~last.success
    /\ last.error = "Session expired. Please reconnect."

\* the credentials hold what the adapter's connect asks for
HasMaterial(adapter, credentials) ==
    /\ credentials.type = "dict"
    /\ (IF adapter.class = "ZerodhaAdapter" THEN "request_token" ELSE "auth_code")
          \in credentials.keys

\* access token, user id and session expiry of the adapter
Session(adapter) ==
    <<adapter.access_token, adapter.user_id, adapter.session_expiry, adapter.expired>>

\* C28 as stated: on every adapter, connect without the credential the
\* adapter asks for, or with null credentials, returns success:false and
\* leaves access token, user id and session expiry as they were.
C28_ConnectNeedsCredentials ==
    [][ ( /\ last'.op = "connect"
          /\ ~HasMaterial(broker_adapter, last'.credentials) )
        => ( /\ ~last'.success
             /\ ~last'.raised
             /\ Session(broker_adapter') = Session(broker_adapter) ) ]_vars

\* C28 amended: on an adapter with its API key configured, connect without
\* the credential the adapter asks for, or with null credentials, returns
\* success:false, raises nothing and leaves access token, user id and
\* session expiry as they were; on an adapter in demo mode the same call
\* succeeds and sets the three.
C28_LiveConnectNeedsCredentials ==
    [][ ( /\ last'.op = "connect"
          /\ ~HasMaterial(broker_adapter, last'.credentials) )
        => IF broker_adapter.demo_mode
           THEN /\ last'.success
                /\ Session(broker_adapter') = <<TRUE, TRUE, TRUE, FALSE>>
           ELSE /\ ~last'.success
                /\ ~last'.raised
                /\ last'.error \in {"AttributeError",
                                     "Request token required for authentication",
                                     "Authorization code required for authentication"}
                /\ Session(broker_adapter') = Session(broker_adapter) ]_vars

\* C28 witness: a live adapter holding a session was asked to connect with
\* null credentials; the call failed and the session is still held.
C28_Witness ==
    /\ ~broker_adapter.demo_mode
    /\ last.op = "connect"
    /\ last.credentials = NoCredentials
    /\ ~last.success
    /\ last.error = "AttributeError"
    /\ Session(broker_adapter) = <<TRUE, TRUE, TRUE, FALSE>>

\* the example of the rule strategy: margin 4,200,000, volatility 0.05, index
\* up, sentiment 0.6 at confidence 0.8, correlation 0.4
IsExample(in) ==
    /\ in.current_margin = 4200
    /\ in.avg_volatility = 5
    /\ in.nifty_change_pct > 0
    /\ in.overall_sentiment_score = 6
    /\ in.overall_sentiment_confidence = 8
    /\ in.avg_correlation = [present |-> TRUE, value |-> 4]

\* C29: whenever the rule strategy produced the result, its reduction is
\* clamp(0.05 + max(0, 0.10 - avg_volatility) + index_term
\*       + sentiment_score x confidence x 0.05 + (1 - avg_correlation) x 0.04,
\*       0.05, 0.25)
\* with index_term +0.02 when the index change is above 0 and -0.02
\* otherwise, and optimized_margin is current_margin x (1 - reduction); on
\* the example the reduction is 0.168 and optimized_margin 3,494,400.
C29_RuleFormula ==
    (pred.result.method = "rule_based" /\ pred.in.avg_correlation.present)
    => LET in == pred.in
           volatility == IF VolatilityCeiling - in.avg_volatility * VolatilityUnit > 0
                         THEN VolatilityCeiling - in.avg_volatility * VolatilityUnit
                         ELSE 0
           index_term == IF in.nifty_change_pct > 0 THEN IndexStep ELSE 0 - IndexStep
           sum == BaseReduction + volatility + index_term
                  + in.overall_sentiment_score * in.overall_sentiment_confidence
                    * SentimentUnit
                  + (One - in.avg_correlation.value) * CorrelationUnit
           clamped == IF sum < MinReduction THEN MinReduction
                      ELSE IF sum > MaxReduction THEN MaxReduction ELSE sum
       IN /\ pred.result.reduction = clamped
          /\ pred.result.optimized_margin = in.current_margin * (Scale - clamped)
          /\ IsExample(in) => ( /\ pred.result.reduction = 16800
                                /\ pred.result.optimized_margin = 349440000 )

\* C29 witness: the rule strategy answered the example.
C29_Witness ==
    /\ pred.result.method = "rule_based"
    /\ IsExample(pred.in)
    /\ pred.result.reduction = 16800

\* C30: predict_optimal_margin, called with any combination of missing parts
\* of the portfolio, the market data and the sentiment data, returns a result
\* without raising, and a feature that cannot be derived counts as 0: the
\* rule strategy's reduction is the one its formula gives with 0 for the
\* correlation when there is no correlation data.
C30_PartialDataDegrades ==
    pred.result # NoResult
    => /\ ~pred.result.raised
       /\ pred.result.method \in {"ml_model", "rule_based"}
       /\ (pred.result.method = "rule_based" /\ ~pred.partial.correlation)
          => pred.result.reduction =
                LET in == prepare_features(pred.partial, pred.model_loaded)
                    sum == BaseReduction
                           + (VolatilityCeiling - in.avg_volatility * VolatilityUnit)
                           + (IF in.nifty_change_pct > 0 THEN IndexStep ELSE 0 - IndexStep)
                           + in.overall_sentiment_score * in.overall_sentiment_confidence
                             * SentimentUnit
                           + (One - 0) * CorrelationUnit
                IN IF sum < MinReduction THEN MinReduction
                   ELSE IF sum > MaxReduction THEN MaxReduction ELSE sum

-----------------------------------------------------------------------------
(* Claims about the missing correlation, the result's arithmetic, the
   lookups, the facade's broker state and the pledge ids *)

\* C31: when the features carry no avg_correlation (the market data has no
\* correlation information), the rule strategy's reduction is the one it
\* gives for a present avg_correlation of 0: the correlation term is
\* (1 - 0) x 0.04 = 0.04.
C31_MissingCorrelationIsZero ==
    (pred.result.method = "rule_based" /\ ~pred.in.avg_correlation.present)
    => /\ correlation_factor(pred.in) = One * CorrelationUnit
       /\ pred.result.reduction =
             rule_reduction([pred.in EXCEPT !.avg_correlation =
                                               [present |-> TRUE, value |-> 0]])

\* C32: for a result of either strategy and every current_margin (negative,
\* 0, positive), optimized_margin = current_margin x (1 - reduction),
\* potential_savings = current_margin - optimized_margin, the two add up to
\* current_margin, reduction_percent = 100 x reduction, and current_margin is
\* the one of the portfolio; the reduction is the model's prediction, taken
\* as it is, or the rule's.
C32_ResultArithmetic ==
    pred.result.method \in {"ml_model", "rule_based"}
    => LET in == pred.in
           result == pred.result
           reduction == IF result.method = "ml_model" THEN in.predict.value
                        ELSE rule_reduction(in)
       IN /\ result.current_margin = in.current_margin
          /\ result.reduction = reduction
          /\ result.optimized_margin = in.current_margin * (Scale - reduction)
          /\ result.potential_savings =
                in.current_margin * Scale - result.optimized_margin
          /\ result.optimized_margin + result.potential_savings
                = in.current_margin * Scale
          /\ result.reduction_percent = 100 * reduction

\* C32 witness: the model predicted a reduction of 0.4, above the rule's
\* bounds, for a margin of 4,200,000: optimized_margin is 2,520,000 and
\* potential_savings 1,680,000.
C32_Witness ==
    /\ pred.result.method = "ml_model"
    /\ pred.result.current_margin = 4200
    /\ pred.result.reduction = 40000
    /\ pred.result.optimized_margin = 252000000
    /\ pred.result.potential_savings = 168000000

\* C33: get_supported_brokers and is_supported leave the registry as it is;
\* is_supported(name) answers whether the lowered name is a key of the
\* registry, get_supported_brokers returns exactly the keys; and no step of
\* any operation removes a key from the registry.
C33_LookupsArePure ==
    [][ /\ DOMAIN adapters \subseteq DOMAIN adapters'
        /\ last'.op \in {"get_supported_brokers", "is_supported"}
           => adapters' = adapters
        /\ last'.op = "get_supported_brokers"
           => last'.supported = DOMAIN adapters
        /\ (last'.op = "is_supported" /\ ~last'.raised)
           => last'.success = (Lower(last'.broker) \in DOMAIN adapters) ]_vars

\* C33 witness: after a third broker was registered, is_supported('ZERODHA')
\* answered true.
C33_Witness ==
    /\ last.op = "is_supported"
    /\ last.broker = "ZERODHA"
    /\ last.success
    /\ DOMAIN adapters = {"zerodha", "fyers", "upstox"}

\* C34: a connect that returns success:false leaves the facade's adapter
\* reference and connected_broker as they were before the call.
C34_FailedConnectChangesNothing ==
    [][ (last'.op = "connect" /\ ~last'.success)
        => ( /\ broker_adapter' = broker_adapter
             /\ connected_broker' = connected_broker ) ]_vars

\* C35: connected_broker is unset exactly when no adapter is bound, and when
\* it is set it names (whatever the case of its letters) the broker of the
\* bound adapter.
C35_ConnectedBrokerMatchesAdapter ==
    /\ (connected_broker = None) = (broker_adapter = NoAdapter)
    /\ connected_broker # None => Lower(connected_broker) = broker_adapter.broker

\* C36: connect and disconnect, successful or not, change nothing of the
\* pledge service: the request records with their statuses, the pledged
\* holdings, the next pledge id, the mode and the session are the same after
\* the call as before.
C36_ConnectLeavesPledges ==
    [][ last'.op \in {"connect", "disconnect"}
        => ( /\ demo_pledge_requests' = demo_pledge_requests
             /\ demo_pledged_holdings' = demo_pledged_holdings
             /\ next_pledge_id' = next_pledge_id
             /\ demo_mode' = demo_mode
             /\ session_valid' = session_valid ) ]_vars

\* C36 witness: with a pledge request stored, a connected broker was
\* disconnected, and the request was then authorized with no adapter bound.
C36_Witness ==
    /\ demo_mode
    /\ ever_connected
    /\ broker_adapter = NoAdapter
    /\ connected_broker = None
    /\ last.op = "authorize_pledge"
    /\ last.success
    /\ last.id = <<"PL", FirstNewNum>>
    /\ demo_pledge_requests[<<"PL", FirstNewNum>>].status = "COMPLETED"

-----------------------------------------------------------------------------
(* Two request threads inside create_pledge_request, one statement at a time *)

Threads == {1, 2}

\* where a thread is in create_pledge_request, and its locals
Called(stock_id, quantity) ==
    [pc |-> "called", stock_id |-> stock_id, quantity |-> quantity, pledge_id |-> NoId]

\* both requests have arrived; the service is in demo mode
InitConcurrent ==
    /\ PledgeInit
    /\ demo_mode = TRUE
    /\ BrokerIdle
    /\ last = NoCall
    /\ pred = None
    /\ threads \in [Threads -> {Called(stock_id, quantity) :
                                   stock_id \in Symbols, quantity \in Quantities}]

\* _generate_pledge_id: pledge_id = self.next_pledge_id
ThreadReadsNextId == \E t \in Threads :
    /\ threads[t].pc = "called"
    /\ threads' = [threads EXCEPT ![t].pc = "read", ![t].pledge_id = GeneratedId]
    /\ UNCHANGED <<pledgeVars, brokerVars, last, pred>>

\* _generate_pledge_id: id_num = int(pledge_id[2:]); self.next_pledge_id = f"PL{id_num + 1}"
ThreadWritesNextId == \E t \in Threads :
    /\ threads[t].pc = "read"
    /\ next_pledge_id' = NextIdAfter(threads[t].pledge_id)
    /\ threads' = [threads EXCEPT ![t].pc = "generated"]
    /\ UNCHANGED <<demo_mode, session_valid, demo_pledged_holdings, demo_pledge_requests,
                   unpledged, authorizations, brokerVars, last, pred>>

\* create_pledge_request: self.demo_pledge_requests[pledge_id] = {...}
ThreadStoresRequest == \E t \in Threads :
    /\ threads[t].pc = "generated"
    /\ demo_pledge_requests' =
          Put(demo_pledge_requests, threads[t].pledge_id,
              [pledge_id |-> threads[t].pledge_id, symbol |-> threads[t].stock_id,
               quantity |-> threads[t].quantity, status |-> "PENDING_AUTHORIZATION"])
    /\ threads' = [threads EXCEPT ![t].pc = "stored"]
    /\ UNCHANGED <<demo_mode, session_valid, demo_pledged_holdings, next_pledge_id,
                   unpledged, authorizations, brokerVars, last, pred>>

\* create_pledge_request: return {"success": True, "pledge_id": pledge_id, ...}
ThreadReturns == \E t \in Threads :
    /\ threads[t].pc = "stored"
    /\ last' = [Returned("create_pledge_request", NoId, NoOtp, TRUE, "",
                         "PENDING_AUTHORIZATION")
                   EXCEPT !.quantity = threads[t].quantity,
                          !.result_id = threads[t].pledge_id]
    /\ threads' = [threads EXCEPT ![t].pc = "returned"]
    /\ UNCHANGED <<pledgeVars, brokerVars, pred>>

NextConcurrent ==
    \/ ThreadReadsNextId
    \/ ThreadWritesNextId
    \/ ThreadStoresRequest
    \/ ThreadReturns

SpecConcurrent == InitConcurrent /\ [][NextConcurrent]_vars

\* C37: when both concurrent create_pledge_request calls have returned, they
\* returned two different pledge ids and each call's request is stored under
\* its id with the symbol and quantity of that call
C37_ConcurrentCreatesKeepBoth ==
    (\A t \in Threads : threads[t].pc = "returned") =>
        /\ threads[1].pledge_id # threads[2].pledge_id
        /\ \A t \in Threads :
              /\ threads[t].pledge_id \in DOMAIN demo_pledge_requests
              /\ demo_pledge_requests[threads[t].pledge_id].symbol = threads[t].stock_id
              /\ demo_pledge_requests[threads[t].pledge_id].quantity = threads[t].quantity

-----------------------------------------------------------------------------
(* The /api/margin/optimize route: get_portfolio, then predict_optimal_margin.
   Margins are in thousands of rupees.                                       *)

\* the used-margin total of both adapters' demo snapshots: 350000.00
DemoUsedMargin == 350

\* demo_portfolio['margins'] of the two adapters
DemoMargins(class) ==
    IF class = "ZerodhaAdapter"
    THEN [total |-> 500,
          used |-> [equity |-> 100, futures |-> 250, options |-> 0,
                    total |-> DemoUsedMargin],
          available |-> [cash |-> 150, collateral |-> 250, total |-> 150]]
    ELSE [total |-> 500,
          used |-> [cash |-> 100, margin_used |-> 250, premium_used |-> 0,
                    total_used |-> DemoUsedMargin],
          available |-> [cash_available |-> 150, total_available |-> 150]]

\* {} and d.get(key, default)
EmptyDict == [x \in {} |-> x]
Get(d, key, default) == IF key \in DOMAIN d THEN d[key] ELSE default

\* a successful get_margin of the adapter: demo mode, and the development
\* reply of live mode, return the snapshot under 'margins'
get_margin(adapter) == [success |-> TRUE, margins |-> DemoMargins(adapter.class)]

\* the dict get_portfolio returns, given the reply it composed or passed on
Portfolio(reply, adapter) ==
    IF reply.success
    THEN [success |-> TRUE, holdings |-> "holdings", positions |-> "positions",
          margin |-> Get(get_margin(adapter), "margins", EmptyDict),
          parts |-> reply.parts]
    ELSE [success |-> FALSE, error |-> reply.error]

\* portfolio.get('margin', {}).get('used_margin', 0)
current_margin(portfolio) == Get(Get(portfolio, "margin", EmptyDict), "used_margin", 0)

\* market data and sentiment of a request; the positions of the adapters'
\* snapshots all carry a symbol, and those of a failed fetch are absent
RouteInputs ==
    {in \in PredictInputs :
        /\ ~in.prepare_raises
        /\ ~in.row_raises
        /\ in.current_margin = 0
        /\ in.avg_volatility = 5
        /\ in.overall_sentiment_score = 6
        /\ in.overall_sentiment_confidence = 8
        /\ (in.predict.raises \/ in.predict.value = 16800)}

NoPortfolio == [success |-> FALSE, error |-> "not fetched"]

InitOptimize ==
    /\ PledgeInit
    /\ demo_mode = TRUE
    /\ api_keys \in SUBSET Brokers
    /\ adapters = Registered
    /\ broker_adapter = NoAdapter
    /\ connected_broker = None
    /\ adapters_built = 0
    /\ ever_connected = FALSE
    /\ connected_adapter = 0
    /\ last = NoCall
    /\ \E in \in RouteInputs :
          pred = [in |-> in, portfolio |-> NoPortfolio, result |-> NoResult]
    /\ threads = None

OptimizeConnect ==
    /\ \E broker \in Brokers, credentials \in Credentials :
          connect(broker, credentials)
    /\ UNCHANGED <<pledgeVars, otherVars>>

OptimizeDisconnect ==
    /\ disconnect
    /\ UNCHANGED <<pledgeVars, otherVars>>

\* optimize_margin: the portfolio is fetched and handed to the prediction
optimize_margin ==
    /\ \E expires_before \in 1 .. 4, auth_ok \in BOOLEAN :
          get_portfolio(expires_before, auth_ok)
    /\ LET portfolio == Portfolio(last', broker_adapter) IN
       pred' = [pred EXCEPT
                  !.portfolio = portfolio,
                  !.result = predict_optimal_margin(
                                [pred.in EXCEPT
                                    !.current_margin = current_margin(portfolio)])]
    /\ UNCHANGED threads

NextOptimize ==
    \/ OptimizeConnect
    \/ OptimizeDisconnect
    \/ optimize_margin

SpecOptimize == InitOptimize /\ [][NextOptimize]_vars

-----------------------------------------------------------------------------
(* Claims about the unpledge records and the margin of the fetched portfolio *)

\* C38: a successful unpledge_request returns and stores under 'UP' + the
\* numeric suffix of the pledge id; it replaces whatever was stored under that
\* id by a PENDING_AUTHORIZATION record for min(quantity, pledged quantity) and
\* leaves every other record alone; every record under a 'UP' id is an unpledge
\* record of the pledge with the same suffix, every other record is a pledge
\* request under its own 'PL' id
C38_OneUnpledgeRecordPerPledge ==
    [][ /\ (demo_mode /\ last'.op = "unpledge_request" /\ last'.success) =>
             LET unpledge_id == <<"UP", last'.id[2]>>
                 pledge == demo_pledged_holdings[
                              FirstIndex(demo_pledged_holdings, last'.id)] IN
             /\ last'.result_id = unpledge_id
             /\ DOMAIN demo_pledge_requests' =
                   (DOMAIN demo_pledge_requests) \cup {unpledge_id}
             /\ demo_pledge_requests'[unpledge_id] =
                   [unpledge_id |-> unpledge_id, pledge_id |-> last'.id,
                    symbol |-> pledge.symbol,
                    quantity |-> IF last'.quantity <= pledge.quantity
                                 THEN last'.quantity ELSE pledge.quantity,
                    status |-> "PENDING_AUTHORIZATION"]
             /\ \A k \in (DOMAIN demo_pledge_requests) \ {unpledge_id} :
                   demo_pledge_requests'[k] = demo_pledge_requests[k]
        /\ \A k \in DOMAIN demo_pledge_requests' :
              LET request == demo_pledge_requests'[k] IN
              IF k[1] = "UP"
              THEN /\ "unpledge_id" \in DOMAIN request
                   /\ request.unpledge_id = k
                   /\ request.pledge_id = <<"PL", k[2]>>
              ELSE /\ k[1] = "PL"
                   /\ "unpledge_id" \notin DOMAIN request
                   /\ request.pledge_id = k
      ]_vars

\* a successful unpledge_request for a pledge whose earlier unpledge request
\* was authorized: the COMPLETED record has been replaced by a pending one
C38_Witness ==
    /\ demo_mode
    /\ last.op = "unpledge_request"
    /\ last.success
    /\ IdNum(last.id) \in PledgeNums
    /\ unpledged[IdNum(last.id)] > 0
    /\ last.result_id \in DOMAIN demo_pledge_requests
    /\ demo_pledge_requests[last.result_id].status = "PENDING_AUTHORIZATION"

\* C39: after optimize_margin fetched the portfolio of a connected account, the
\* result's current_margin is the used-margin total of the adapter's get_margin
\* (350 thousand for the demo snapshot), and optimized_margin and
\* potential_savings are positive
C39_OptimizeUsesAdapterMargin ==
    pred.portfolio.success =>
        /\ pred.result.current_margin = DemoUsedMargin
        /\ pred.result.optimized_margin > 0
        /\ pred.result.potential_savings > 0

=============================================================================
